---------------------------- MODULE Spec2Model ----------------------------
(***************************************************************************)
(* A model of the vector / matrix / quaternion library VecMat.h.           *)
(*                                                                         *)
(* The library is a set of pure functions over float.  A float (and the    *)
(* double used inside InvertMatrix4x4) is modelled as an exact rational    *)
(* <<n, d>> in lowest terms with d > 0: the arithmetic is the real         *)
(* arithmetic the float operations approximate, rounding is not modelled.  *)
(* A vecN is a function 0..N-1 -> rational (v[0] is x), a matN a function  *)
(* 0..N-1 -> vecN (m[i] is row i), as operator[] gives them in the source. *)
(*                                                                         *)
(* A behaviour is one call: Init draws the arguments of a library          *)
(* function from bounded sets (pc = "call"), the function's action         *)
(* computes what the code computes and stores it in res (pc = "done").     *)
(***************************************************************************)
EXTENDS Integers, Sequences, FiniteSets, TLC

VARIABLES pc,    \* "call": arguments drawn, "done": the function has returned
          fn,    \* the library function being called
          arg,   \* its arguments
          res    \* what it returned / wrote to its output parameters

vars == <<pc, fn, arg, res>>

NoRes == "none"

--------------------------------------------------------------------------
(* float arithmetic, exact *)

Abs(i) == IF i < 0 THEN -i ELSE i

RECURSIVE GCD(_, _)
GCD(a, b) == IF b = 0 THEN a ELSE GCD(b, a % b)

\* the rational n/d in lowest terms, d > 0
Rat(n, d) ==
    LET g == GCD(Abs(n), Abs(d))
    IN  IF d < 0 THEN <<(-n) \div g, (-d) \div g>> ELSE <<n \div g, d \div g>>

F(i) == <<i, 1>>                       \* the float with integer value i

RAdd(a, b) ==
    LET g == GCD(a[2], b[2])
    IN  Rat(a[1] * (b[2] \div g) + b[1] * (a[2] \div g), (a[2] \div g) * b[2])
RNeg(a)    == <<-a[1], a[2]>>
RSub(a, b) == RAdd(a, RNeg(b))
RMul(a, b) ==
    LET g1 == GCD(Abs(a[1]), b[2])
        g2 == GCD(Abs(b[1]), a[2])
    IN  IF a[1] = 0 \/ b[1] = 0 THEN <<0, 1>>
        ELSE <<(a[1] \div g1) * (b[1] \div g2), (a[2] \div g2) * (b[2] \div g1)>>
\* a / b, b # 0
RDiv(a, b) == RMul(a, IF b[1] < 0 THEN <<-b[2], -b[1]>> ELSE <<b[2], b[1]>>)
RLt(a, b)  ==
    LET g == GCD(a[2], b[2]) IN a[1] * (b[2] \div g) < b[1] * (a[2] \div g)
RLe(a, b)  ==
    LET g == GCD(a[2], b[2]) IN a[1] * (b[2] \div g) <= b[1] * (a[2] \div g)
RIsZero(a) == a[1] = 0

--------------------------------------------------------------------------
(* vec4, mat4 *)

\* vec4(x, y, z, w)
vec4(x, y, z, w) == [i \in 0..3 |-> CASE i = 0 -> x [] i = 1 -> y [] i = 2 -> z [] OTHER -> w]

\* dot(const vec4 &a, const vec4 &b)
dot4(a, b) == RAdd(RAdd(RAdd(RMul(a[0], b[0]), RMul(a[1], b[1])), RMul(a[2], b[2])), RMul(a[3], b[3]))

\* mat4(float diag): the rows are zero vectors, then the diagonal is set
mat4diag(diag) == [i \in 0..3 |-> [j \in 0..3 |-> IF i = j THEN diag ELSE F(0)]]

\* mat4::operator*(const vec4 &v)
Mat4MulVec(m, v) == vec4(dot4(m[0], v), dot4(m[1], v), dot4(m[2], v), dot4(m[3], v))

\* Orthographic with the z scale 2/(zFar-zNear): the sign of c[2][2] flipped
OrthographicZScaleFlipped(left, right, bottom, top, zNear, zFar) ==
    LET c == mat4diag(F(1))
    IN  [c EXCEPT ![0][0] = RDiv(F(2), RSub(right, left)),
                  ![1][1] = RDiv(F(2), RSub(top, bottom)),
                  ![2][2] = RDiv(F(2), RSub(zFar, zNear)),
                  ![3][3] = F(1),
                  ![0][3] = RDiv(RNeg(RAdd(right, left)), RSub(right, left)),
                  ![1][3] = RDiv(RNeg(RAdd(top, bottom)), RSub(top, bottom)),
                  ![2][3] = RDiv(RNeg(RAdd(zFar, zNear)), RSub(zFar, zNear))]

\* Orthographic(left, right, bottom, top, zNear, zFar)
Orthographic(left, right, bottom, top, zNear, zFar) ==
    LET c == mat4diag(F(1))
    IN  [c EXCEPT ![0][0] = RDiv(F(2), RSub(right, left)),
                  ![1][1] = RDiv(F(2), RSub(top, bottom)),
                  ![2][2] = RDiv(F(2), RSub(zNear, zFar)),
                  ![3][3] = F(1),
                  ![0][3] = RDiv(RNeg(RAdd(right, left)), RSub(right, left)),
                  ![1][3] = RDiv(RNeg(RAdd(top, bottom)), RSub(top, bottom)),
                  ![2][3] = RDiv(RNeg(RAdd(zFar, zNear)), RSub(zFar, zNear))]

--------------------------------------------------------------------------
(* Orthographic(l, r, b, t, n, f) * v *)

MaxC == 1          \* box planes are drawn from -MaxC..MaxC

Coords == {F(i) : i \in -MaxC..MaxC}

\* the arguments: a box with left # right, bottom # top, zNear # zFar (the
\* divisions of lines 418-424 are by nonzero), and a point with w = 1 whose
\* x and y lie on box planes and whose z is one of zNear, zFar, -zNear, -zFar
InitOrtho ==
    /\ pc = "call"
    /\ fn = "Orthographic"
    /\ \E l \in Coords, r \in Coords, b \in Coords, t \in Coords,
          n \in Coords, f \in Coords :
          /\ l # r /\ b # t /\ n # f
          /\ \E x \in {l, r}, y \in {b, t}, z \in {n, f, RNeg(n), RNeg(f)} :
                arg = [left |-> l, right |-> r, bottom |-> b, top |-> t,
                       zNear |-> n, zFar |-> f, v |-> vec4(x, y, z, F(1))]
    /\ res = NoRes

\* vec4 p = Orthographic(left, right, bottom, top, zNear, zFar) * v
OrthoApply ==
    /\ pc = "call" /\ fn = "Orthographic"
    /\ res' = Mat4MulVec(Orthographic(arg.left, arg.right, arg.bottom, arg.top,
                                      arg.zNear, arg.zFar), arg.v)
    /\ pc' = "done"
    /\ UNCHANGED <<fn, arg>>

NextOrtho == OrthoApply

SpecOrtho == InitOrtho /\ [][NextOrtho]_vars

OrthoDone == pc = "done" /\ fn = "Orthographic"

IsIdentityBox ==
    /\ arg.left = F(-1) /\ arg.right = F(1)
    /\ arg.bottom = F(-1) /\ arg.top = F(1)
    /\ arg.zNear = F(-1) /\ arg.zFar = F(1)

Ones4 == vec4(F(1), F(1), F(1), F(1))

\* C1 as stated: Orthographic(-1,1,-1,1,-1,1) * (1,1,1,1) is (1,1,1,1), every
\* component unchanged.
C1_IdentityBoxUnchanged ==
    (OrthoDone /\ IsIdentityBox /\ arg.v = Ones4) => res = Ones4

\* C1 amended: Orthographic(-1,1,-1,1,-1,1) * (1,1,1,1) is (1,1,-1,1): x, y and
\* w are unchanged and z is negated.
C1_IdentityBoxFlipsZ ==
    (OrthoDone /\ IsIdentityBox /\ arg.v = Ones4)
        => res = vec4(F(1), F(1), F(-1), F(1))

C1_Witness == OrthoDone /\ IsIdentityBox /\ arg.v = Ones4

IsPM1(x) == x = F(1) \/ x = F(-1)

\* C10 as stated: every corner of [left,right] x [bottom,top] x [zNear,zFar]
\* (w = 1) goes to a point whose x, y, z are each -1 or +1 and whose w is 1.
C10_BoxCornersToCube ==
    (OrthoDone /\ arg.v[2] \in {arg.zNear, arg.zFar})
        => (IsPM1(res[0]) /\ IsPM1(res[1]) /\ IsPM1(res[2]) /\ res[3] = F(1))

\* C10 amended: zNear and zFar are distances along -z.  Every corner of
\* [left,right] x [bottom,top] x [-zFar,-zNear] (w = 1) goes to a corner of the
\* cube: left -> -1, right -> +1, bottom -> -1, top -> +1, z = -zNear -> -1,
\* z = -zFar -> +1, w = 1.
C10_ViewVolumeCornersToCube ==
    (OrthoDone /\ arg.v[2] \in {RNeg(arg.zNear), RNeg(arg.zFar)})
        => /\ res[0] = (IF arg.v[0] = arg.left THEN F(-1) ELSE F(1))
           /\ res[1] = (IF arg.v[1] = arg.bottom THEN F(-1) ELSE F(1))
           /\ res[2] = (IF arg.v[2] = RNeg(arg.zNear) THEN F(-1) ELSE F(1))
           /\ res[3] = F(1)

\* a box that is not symmetric about z = 0, at its far corner
C10_Witness ==
    /\ OrthoDone
    /\ arg.zNear = F(0) /\ arg.zFar = F(1) /\ arg.left = F(0) /\ arg.right = F(1)
    /\ arg.v[0] = arg.right /\ arg.v[2] = F(-1)
    /\ res[2] = F(1)

--------------------------------------------------------------------------
(* Perspective(verticalFOV, aspectRatio, zNear, zFar) * v *)

\* Perspective with the factor 2 of m[2][3] dropped
PerspectiveNoTwo(t, aspectRatio, zNear, zFar) ==
    LET fnDif == RSub(zFar, zNear)
        m     == mat4diag(F(0))
    IN  [m EXCEPT ![0][0] = RDiv(F(1), RMul(aspectRatio, t)),
                  ![1][1] = RDiv(F(1), t),
                  ![2][2] = RDiv(RNeg(RAdd(zFar, zNear)), fnDif),
                  ![2][3] = RDiv(RMul(RNeg(zFar), zNear), fnDif),
                  ![3][2] = F(-1)]

\* Perspective(verticalFOV, aspectRatio, zNear, zFar).  The field of view
\* enters only through t = tan(verticalFOV*DegreesToRadians/2) (line 433), a
\* positive number for 0 < verticalFOV < 180; the model takes t itself as the
\* argument, so that a rational t stands for the angle 2*atan(t).
Perspective(t, aspectRatio, zNear, zFar) ==
    LET fnDif == RSub(zFar, zNear)
        m     == mat4diag(F(0))
    IN  [m EXCEPT ![0][0] = RDiv(F(1), RMul(aspectRatio, t)),
                  ![1][1] = RDiv(F(1), t),
                  ![2][2] = RDiv(RNeg(RAdd(zFar, zNear)), fnDif),
                  ![2][3] = RDiv(RMul(RMul(F(-2), zFar), zNear), fnDif),
                  ![3][2] = F(-1)]

MaxZ == 2          \* plane distances are 1/10, 1..MaxZ and 100

Distances == {Rat(1, 10), F(100)} \cup {F(i) : i \in 1..MaxZ}
TanHalfFovs == {Rat(1, 2), F(1), F(2)}
AspectRatios == {Rat(1, 2), F(1), F(2)}

\* the arguments: any t, aspect ratio, 0 < zNear < zFar, and the point on the
\* view axis at the near or at the far distance
InitPersp ==
    /\ pc = "call"
    /\ fn = "Perspective"
    /\ \E t \in TanHalfFovs, a \in AspectRatios, n \in Distances, f \in Distances :
          /\ RLt(n, f)
          /\ \E z \in {RNeg(n), RNeg(f)} :
                arg = [t |-> t, aspectRatio |-> a, zNear |-> n, zFar |-> f,
                       v |-> vec4(F(0), F(0), z, F(1))]
    /\ res = NoRes

\* vec4 p = Perspective(verticalFOV, aspectRatio, zNear, zFar) * v
PerspApply ==
    /\ pc = "call" /\ fn = "Perspective"
    /\ res' = Mat4MulVec(Perspective(arg.t, arg.aspectRatio, arg.zNear, arg.zFar), arg.v)
    /\ pc' = "done"
    /\ UNCHANGED <<fn, arg>>

NextPersp == PerspApply

SpecPersp == InitPersp /\ [][NextPersp]_vars

PerspDone == pc = "done" /\ fn = "Perspective"

\* C9: for 0 < zNear < zFar, Perspective maps (0,0,-zNear,1) to clip
\* coordinates with w = zNear > 0 and z/w = -1, and (0,0,-zFar,1) to
\* w = zFar > 0 and z/w = +1.
C9_NearFarPlanes ==
    PerspDone =>
        /\ arg.v[2] = RNeg(arg.zNear) =>
              /\ res[3] = arg.zNear /\ RLt(F(0), res[3])
              /\ RDiv(res[2], res[3]) = F(-1)
        /\ arg.v[2] = RNeg(arg.zFar) =>
              /\ res[3] = arg.zFar /\ RLt(F(0), res[3])
              /\ RDiv(res[2], res[3]) = F(1)

\* the spec's example planes, zNear = 0.1 and zFar = 100, at the near plane
C9_Witness ==
    /\ PerspDone
    /\ arg.aspectRatio = F(1) /\ arg.zNear = Rat(1, 10) /\ arg.zFar = F(100)
    /\ arg.v = vec4(F(0), F(0), Rat(-1, 10), F(1))
    /\ res[3] = Rat(1, 10) /\ res[2] = Rat(-1, 10)

--------------------------------------------------------------------------
(* vector * vector and vector *= vector *)

\* vec2(x, y), vec3(x, y, z)
vec2(x, y) == [i \in 0..1 |-> IF i = 0 THEN x ELSE y]
vec3(x, y, z) == [i \in 0..2 |-> CASE i = 0 -> x [] i = 1 -> y [] OTHER -> z]

\* vec2::operator*(const vec2 &v), vec2::operator*=(const vec2 &v)
vec2Mul(a, v) == vec2(RMul(a[0], v[0]), RMul(a[1], v[1]))
vec2MulAssign(a, v) == [a EXCEPT ![0] = RMul(a[0], v[0]), ![1] = RMul(a[1], v[1])]

\* vec3::operator*(const vec3 &v), vec3::operator*=(const vec3 &v)
vec3Mul(a, v) == vec3(RMul(a[0], v[0]), RMul(a[1], v[1]), RMul(a[2], v[2]))
vec3MulAssign(a, v) ==
    [a EXCEPT ![0] = RMul(a[0], v[0]), ![1] = RMul(a[1], v[1]), ![2] = RMul(a[2], v[2])]

\* vec4::operator*(const vec4 &v): the last component is w*v.z
vec4Mul(a, v) == vec4(RMul(a[0], v[0]), RMul(a[1], v[1]), RMul(a[2], v[2]), RMul(a[3], v[2]))
\* vec4::operator*=(const vec4 &v)
vec4MulAssign(a, v) ==
    [a EXCEPT ![0] = RMul(a[0], v[0]), ![1] = RMul(a[1], v[1]),
              ![2] = RMul(a[2], v[2]), ![3] = RMul(a[3], v[3])]

MaxV == 1          \* vector components are drawn from -MaxV..MaxV

Comps == {F(i) : i \in -MaxV..MaxV}

\* the arguments: two vectors of the same dimension n
InitVecMul ==
    /\ pc = "call"
    /\ fn = "vecMul"
    /\ \E n \in 2..4 : \E a \in [0..n-1 -> Comps], b \in [0..n-1 -> Comps] :
          arg = [n |-> n, a |-> a, b |-> b]
    /\ res = NoRes

\* vec2 p = a*b; a *= b;
Vec2MulApply ==
    /\ pc = "call" /\ fn = "vecMul" /\ arg.n = 2
    /\ res' = [prod |-> vec2Mul(arg.a, arg.b), a |-> vec2MulAssign(arg.a, arg.b)]
    /\ pc' = "done"
    /\ UNCHANGED <<fn, arg>>

\* vec3 p = a*b; a *= b;
Vec3MulApply ==
    /\ pc = "call" /\ fn = "vecMul" /\ arg.n = 3
    /\ res' = [prod |-> vec3Mul(arg.a, arg.b), a |-> vec3MulAssign(arg.a, arg.b)]
    /\ pc' = "done"
    /\ UNCHANGED <<fn, arg>>

\* vec4 p = a*b; a *= b;
Vec4MulApply ==
    /\ pc = "call" /\ fn = "vecMul" /\ arg.n = 4
    /\ res' = [prod |-> vec4Mul(arg.a, arg.b), a |-> vec4MulAssign(arg.a, arg.b)]
    /\ pc' = "done"
    /\ UNCHANGED <<fn, arg>>

NextVecMul == Vec2MulApply \/ Vec3MulApply \/ Vec4MulApply

SpecVecMul == InitVecMul /\ [][NextVecMul]_vars

VecMulDone == pc = "done" /\ fn = "vecMul"

\* C3: for vec2, vec3 and vec4, component i of a*b is a[i]*b[i] for every i
\* (w of vec4 included), and a*b is what a *= b leaves in a.
C3_ProductIsHadamard ==
    VecMulDone =>
        /\ \A i \in 0..arg.n-1 : res.prod[i] = RMul(arg.a[i], arg.b[i])
        /\ res.prod = res.a

--------------------------------------------------------------------------
(* mat3: Adjoint3x3, InvertMatrix3x3, Inverse *)

\* FLT_EPSILON of <float.h>, 2^-23
FLT_EPSILON == <<1, 8388608>>

\* mat3(float diag)
mat3diag(diag) == [i \in 0..2 |-> [j \in 0..2 |-> IF i = j THEN diag ELSE F(0)]]

\* mat3(const vec3 &r0, const vec3 &r1, const vec3 &r2)
mat3rows(r0, r1, r2) == [i \in 0..2 |-> CASE i = 0 -> r0 [] i = 1 -> r1 [] OTHER -> r2]

\* dot(const vec3 &a, const vec3 &b)
dot3(a, b) == RAdd(RAdd(RMul(a[0], b[0]), RMul(a[1], b[1])), RMul(a[2], b[2]))

\* mat3::operator*(const mat3 &m): a(0), then a[i][j] += row[i][k]*m[k][j], k = 0, 1, 2
Mat3Mul(a, m) ==
    [i \in 0..2 |-> [j \in 0..2 |->
        RAdd(RAdd(RAdd(F(0), RMul(a[i][0], m[0][j])), RMul(a[i][1], m[1][j])),
             RMul(a[i][2], m[2][j]))]]

\* mat3::operator*(const vec3 &v)
Mat3MulVec(m, v) == vec3(dot3(m[0], v), dot3(m[1], v), dot3(m[2], v))

\* Transpose(mat3 m)
Transpose3(m) ==
    mat3rows(vec3(m[0][0], m[1][0], m[2][0]),
             vec3(m[0][1], m[1][1], m[2][1]),
             vec3(m[0][2], m[1][2], m[2][2]))

\* a*b - c*d
Det2(a, b, c, d) == RSub(RMul(a, b), RMul(c, d))

\* Adjoint3x3(mat3 in)
Adjoint3x3(in) ==
    LET o00 == Det2(in[1][1], in[2][2], in[1][2], in[2][1])
        o10 == RNeg(Det2(in[1][0], in[2][2], in[1][2], in[2][0]))
        o20 == Det2(in[1][0], in[2][1], in[1][1], in[2][0])
        o01 == RNeg(Det2(in[0][1], in[2][2], in[0][2], in[2][1]))
        o11 == Det2(in[0][0], in[2][2], in[0][2], in[2][0])
        o21 == RNeg(Det2(in[0][0], in[2][1], in[0][1], in[2][0]))
        o02 == Det2(in[0][1], in[1][2], in[0][2], in[1][1])
        o12 == RNeg(Det2(in[0][0], in[1][2], in[0][2], in[1][0]))
        o22 == Det2(in[0][0], in[1][1], in[0][1], in[1][0])
    IN  mat3rows(vec3(o00, o01, o02), vec3(o10, o11, o12), vec3(o20, o21, o22))

\* di*out[i][j] for every element (lines 286-295)
Scale3(di, out) == [i \in 0..2 |-> [j \in 0..2 |-> RMul(di, out[i][j])]]

\* InvertMatrix3x3 with the band test made non-strict (<=, >=)
InvertMatrix3x3ClosedBand(in) ==
    LET out == Adjoint3x3(in)
        det == RAdd(RAdd(RMul(out[0][0], in[0][0]), RMul(out[0][1], in[1][0])),
                    RMul(out[0][2], in[2][0]))
    IN  IF RLe(det, FLT_EPSILON) /\ RLe(RNeg(FLT_EPSILON), det)
        THEN [ok |-> FALSE, out |-> out]
        ELSE [ok |-> TRUE, out |-> Scale3(RDiv(F(1), det), out)]

\* InvertMatrix3x3 dividing by the determinant before the band test
InvertMatrix3x3ScaleFirst(in) ==
    LET out == Adjoint3x3(in)
        det == RAdd(RAdd(RMul(out[0][0], in[0][0]), RMul(out[0][1], in[1][0])),
                    RMul(out[0][2], in[2][0]))
    IN  IF RIsZero(det) THEN [ok |-> FALSE, out |-> out]
        ELSE [ok  |-> ~(RLt(det, FLT_EPSILON) /\ RLt(RNeg(FLT_EPSILON), det)),
              out |-> Scale3(RDiv(F(1), det), out)]

\* InvertMatrix3x3(mat3 in, mat3 &out): the value returned and out on return.
\* out is assigned as a whole first, so what it held before does not matter.
InvertMatrix3x3(in) ==
    LET out == Adjoint3x3(in)
        det == RAdd(RAdd(RMul(out[0][0], in[0][0]), RMul(out[0][1], in[1][0])),
                    RMul(out[0][2], in[2][0]))
    IN  IF RLt(det, FLT_EPSILON) /\ RLt(RNeg(FLT_EPSILON), det)
        THEN [ok |-> FALSE, out |-> out]
        ELSE [ok |-> TRUE, out |-> Scale3(RDiv(F(1), det), out)]

\* Inverse(mat3 m)
Inverse3(m) == InvertMatrix3x3(m).out

\* The rows the 3x3 arguments are built from: the unit vectors, rows whose only
\* entry is FLT_EPSILON or half of it (determinants on the edge of and inside
\* the band), and rows with several entries.
Rows3 ==
    << vec3(F(1), F(0), F(0)), vec3(F(0), F(1), F(0)), vec3(F(0), F(0), F(1)),
       vec3(F(0), F(0), FLT_EPSILON), vec3(F(0), F(0), <<1, 16777216>>),
       vec3(F(1), F(1), F(0)), vec3(F(0), F(1), F(-1)), vec3(F(2), F(0), F(1)),
       vec3(F(1), F(-2), F(3)), vec3(F(-1), F(0), F(2)) >>

NRows3 == 8        \* the first NRows3 rows of Rows3 are used

Pool3 == {Rows3[i] : i \in 1..(IF NRows3 < Len(Rows3) THEN NRows3 ELSE Len(Rows3))}

\* the argument: any matrix with rows from the pool
InitInv3 ==
    /\ pc = "call"
    /\ fn = "InvertMatrix3x3"
    /\ \E r0 \in Pool3, r1 \in Pool3, r2 \in Pool3 : arg = [in |-> mat3rows(r0, r1, r2)]
    /\ res = NoRes

\* bool ok = InvertMatrix3x3(in, out); mat3 inverse = Inverse(in);
Inv3Apply ==
    /\ pc = "call" /\ fn = "InvertMatrix3x3"
    /\ res' = [ok |-> InvertMatrix3x3(arg.in).ok, out |-> InvertMatrix3x3(arg.in).out,
               inverse |-> Inverse3(arg.in)]
    /\ pc' = "done"
    /\ UNCHANGED <<fn, arg>>

NextInv3 == Inv3Apply

SpecInv3 == InitInv3 /\ [][NextInv3]_vars

Inv3Done == pc = "done" /\ fn = "InvertMatrix3x3"

\* the determinant and the adjugate of a 3x3 matrix by their definitions:
\* expansion along row 0, and adj[i][j] = cofactor of element (j, i)
Minor3(m, r, c) ==
    LET r1 == (r + 1) % 3  r2 == (r + 2) % 3
        c1 == (c + 1) % 3  c2 == (c + 2) % 3
    IN  Det2(m[r1][c1], m[r2][c2], m[r1][c2], m[r2][c1])
DetOf3(m) ==
    RAdd(RAdd(RMul(m[0][0], Minor3(m, 0, 0)), RMul(m[0][1], Minor3(m, 0, 1))),
         RMul(m[0][2], Minor3(m, 0, 2)))
AdjugateOf3(m) == [i \in 0..2 |-> [j \in 0..2 |-> Minor3(m, j, i)]]

InBand(d) == RLt(RNeg(FLT_EPSILON), d) /\ RLt(d, FLT_EPSILON)

\* C6: InvertMatrix3x3(in, out) returns false exactly when
\* -FLT_EPSILON < det(in) < FLT_EPSILON (strict on both sides); otherwise it
\* returns true, out is the adjugate of in divided by det(in), and in*out is
\* the identity.
C6_Invert3BandAndInverse ==
    Inv3Done =>
        LET d == DetOf3(arg.in)
        IN  /\ (res.ok = FALSE) <=> InBand(d)
            /\ res.ok =>
                  /\ \A i \in 0..2, j \in 0..2 :
                        res.out[i][j] = RDiv(AdjugateOf3(arg.in)[i][j], d)
                  /\ Mat3Mul(arg.in, res.out) = mat3diag(F(1))

\* a determinant exactly FLT_EPSILON is inverted, with a non-diagonal input
C6_Witness ==
    /\ Inv3Done
    /\ DetOf3(arg.in) = FLT_EPSILON
    /\ arg.in[0] = vec3(F(1), F(1), F(0))
    /\ res.ok

\* C7 as stated: when InvertMatrix3x3 returns false, out (and what
\* Inverse(mat3) returns) is the adjugate of the input divided by the
\* (near-zero, nonzero) determinant.
C7_FailedOutIsAdjugateOverDet ==
    (Inv3Done /\ ~res.ok /\ ~RIsZero(DetOf3(arg.in))) =>
        /\ \A i \in 0..2, j \in 0..2 :
              res.out[i][j] = RDiv(AdjugateOf3(arg.in)[i][j], DetOf3(arg.in))
        /\ res.inverse = res.out

\* C7 amended: when InvertMatrix3x3 returns false, out (and what Inverse(mat3)
\* returns) is the adjugate of the input itself, not divided by the determinant.
C7_FailedOutIsAdjugate ==
    (Inv3Done /\ ~res.ok) =>
        /\ res.out = AdjugateOf3(arg.in)
        /\ res.inverse = AdjugateOf3(arg.in)

\* a failed inversion whose determinant is not zero: diag(1, 1, FLT_EPSILON/2)
C7_Witness ==
    /\ Inv3Done /\ ~res.ok
    /\ DetOf3(arg.in) = <<1, 16777216>>
    /\ res.inverse[2][2] = F(1) /\ res.inverse[0][0] = <<1, 16777216>>

--------------------------------------------------------------------------
(* mat4: InvertMatrix4x4, Inverse *)

\* mat4(const vec4 &r0, const vec4 &r1, const vec4 &r2, const vec4 &r3)
mat4rows(r0, r1, r2, r3) ==
    [i \in 0..3 |-> CASE i = 0 -> r0 [] i = 1 -> r1 [] i = 2 -> r2 [] OTHER -> r3]

\* mat4::mat4(const mat3 &m): the 3x3 block, row[3][3] = 1, zero elsewhere
mat4of3(m) ==
    [i \in 0..3 |-> [j \in 0..3 |->
        IF i < 3 /\ j < 3 THEN m[i][j] ELSE IF i = 3 /\ j = 3 THEN F(1) ELSE F(0)]]

\* the product taken with the rows of m in place of its columns
Mat4MulByRows(a, m) ==
    [i \in 0..3 |-> [j \in 0..3 |->
        RAdd(RAdd(RAdd(RAdd(F(0), RMul(a[i][0], m[j][0])), RMul(a[i][1], m[j][1])),
                  RMul(a[i][2], m[j][2])), RMul(a[i][3], m[j][3]))]]

\* mat4::operator*(const mat4 &m): a(0), then a[i][j] += row[i][k]*m[k][j], k = 0..3
Mat4Mul(a, m) ==
    [i \in 0..3 |-> [j \in 0..3 |->
        RAdd(RAdd(RAdd(RAdd(F(0), RMul(a[i][0], m[0][j])), RMul(a[i][1], m[1][j])),
                  RMul(a[i][2], m[2][j])), RMul(a[i][3], m[3][j]))]]

\* the float at index k of the 16 floats a mat4 is passed as (&m[0][0])
Flat(m, k) == m[k \div 4][k % 4]

\* Helper::e(int a, int b, const float *m)
e(a, b, m) == Flat(m, (b % 4) * 4 + (a % 4))

\* Helper::invf with its last product added instead of subtracted
invfLastTermAdded(i0, j0, m) ==
    LET o == 2 + (j0 - i0)
        i == i0 + 4 + o
        j == j0 + 4 - o
        P(a, b, c) == RMul(RMul(a, b), c)
        inv == RAdd(RSub(RSub(RAdd(RAdd(
                   P(e(i+1, j-1, m), e(i+0, j+0, m), e(i-1, j+1, m)),
                   P(e(i+1, j+1, m), e(i+0, j-1, m), e(i-1, j+0, m))),
                   P(e(i-1, j-1, m), e(i+1, j+0, m), e(i+0, j+1, m))),
                   P(e(i-1, j-1, m), e(i+0, j+0, m), e(i+1, j+1, m))),
                   P(e(i-1, j+1, m), e(i+0, j-1, m), e(i+1, j+0, m))),
                   P(e(i+1, j-1, m), e(i-1, j+0, m), e(i+0, j+1, m)))
    IN  IF o % 2 # 0 THEN inv ELSE RNeg(inv)

\* Helper::invf(int i, int j, const float *m)
invf(i0, j0, m) ==
    LET o == 2 + (j0 - i0)
        i == i0 + 4 + o
        j == j0 + 4 - o
        P(a, b, c) == RMul(RMul(a, b), c)
        inv == RSub(RSub(RSub(RAdd(RAdd(
                   P(e(i+1, j-1, m), e(i+0, j+0, m), e(i-1, j+1, m)),
                   P(e(i+1, j+1, m), e(i+0, j-1, m), e(i-1, j+0, m))),
                   P(e(i-1, j-1, m), e(i+1, j+0, m), e(i+0, j+1, m))),
                   P(e(i-1, j-1, m), e(i+0, j+0, m), e(i+1, j+1, m))),
                   P(e(i-1, j+1, m), e(i+0, j-1, m), e(i+1, j+0, m))),
                   P(e(i+1, j-1, m), e(i-1, j+0, m), e(i+0, j+1, m)))
    IN  IF o % 2 # 0 THEN inv ELSE RNeg(inv)

\* the array inv of Helper::invert as a matrix: inv[j*4+i] = invf(i, j, m)
InvertInv(m) == [j \in 0..3 |-> [i \in 0..3 |-> invf(i, j, m)]]

\* the double D of Helper::invert before the test: the sum of m[k]*inv[k*4]
InvertD(m) ==
    LET inv == InvertInv(m)
    IN  RAdd(RAdd(RAdd(RAdd(F(0), RMul(Flat(m, 0), Flat(inv, 0))),
                       RMul(Flat(m, 1), Flat(inv, 4))),
                  RMul(Flat(m, 2), Flat(inv, 8))),
             RMul(Flat(m, 3), Flat(inv, 12)))

\* InvertMatrix4x4 with the singularity test of InvertMatrix3x3
InvertMatrix4x4Band(m, out) ==
    LET inv == InvertInv(m)
        D   == InvertD(m)
    IN  IF RLt(D, FLT_EPSILON) /\ RLt(RNeg(FLT_EPSILON), D)
        THEN [ok |-> FALSE, out |-> out]
        ELSE [ok  |-> TRUE,
              out |-> [i \in 0..3 |-> [j \in 0..3 |-> RMul(inv[i][j], RDiv(F(1), D))]]]

\* InvertMatrix4x4 computing the cofactors in the output buffer
InvertMatrix4x4InPlace(m, out) ==
    LET inv == InvertInv(m)
        D   == InvertD(m)
    IN  IF RIsZero(D)
        THEN [ok |-> FALSE, out |-> inv]
        ELSE [ok  |-> TRUE,
              out |-> [i \in 0..3 |-> [j \in 0..3 |-> RMul(inv[i][j], RDiv(F(1), D))]]]

\* InvertMatrix4x4(const float *m, float *out): the value returned and the 16
\* floats at out on return, out being what they held at the call
InvertMatrix4x4(m, out) ==
    LET inv == InvertInv(m)
        D   == InvertD(m)
    IN  IF RIsZero(D)
        THEN [ok |-> FALSE, out |-> out]
        ELSE [ok  |-> TRUE,
              out |-> [i \in 0..3 |-> [j \in 0..3 |-> RMul(inv[i][j], RDiv(F(1), D))]]]

\* Inverse(mat4 m): mat4 inv; InvertMatrix4x4(&m[0][0], &inv[0][0]); return inv;
Inverse4(m) == InvertMatrix4x4(m, mat4diag(F(1))).out

\* The rows the 4x4 arguments are built from: the unit vectors, a row whose
\* only entry is FLT_EPSILON/2, and rows with several entries.
Rows4 ==
    << vec4(F(1), F(0), F(0), F(0)), vec4(F(0), F(1), F(0), F(0)),
       vec4(F(0), F(0), F(0), F(1)), vec4(F(0), F(0), <<1, 16777216>>, F(0)),
       vec4(F(1), F(1), F(0), F(2)), vec4(F(0), F(-1), F(1), F(1)),
       vec4(F(0), F(0), F(1), F(0)), vec4(F(2), F(0), F(1), F(-1)) >>

NRows4 == 7        \* the first NRows4 rows of Rows4 are used

Pool4 == {Rows4[i] : i \in 1..(IF NRows4 < Len(Rows4) THEN NRows4 ELSE Len(Rows4))}

\* what the output buffer may hold at the call
Buffers4 == {mat4diag(F(1)), mat4diag(F(5))}

\* the arguments: any matrix with rows from the pool, and the output buffer
InitInv4 ==
    /\ pc = "call"
    /\ fn = "InvertMatrix4x4"
    /\ \E r0 \in Pool4, r1 \in Pool4, r2 \in Pool4, r3 \in Pool4, b \in Buffers4 :
          arg = [m |-> mat4rows(r0, r1, r2, r3), out |-> b]
    /\ res = NoRes

\* bool ok = InvertMatrix4x4(m, out); mat4 inverse = Inverse(m);
Inv4Apply ==
    /\ pc = "call" /\ fn = "InvertMatrix4x4"
    /\ res' = [ok |-> InvertMatrix4x4(arg.m, arg.out).ok,
               out |-> InvertMatrix4x4(arg.m, arg.out).out,
               inverse |-> Inverse4(arg.m)]
    /\ pc' = "done"
    /\ UNCHANGED <<fn, arg>>

NextInv4 == Inv4Apply

SpecInv4 == InitInv4 /\ [][NextInv4]_vars

Inv4Done == pc = "done" /\ fn = "InvertMatrix4x4"

\* the determinant of a 4x4 matrix by its definition: expansion along row 0,
\* the minor of (0, c) being the rows 1..3 without column c
Sub4(m, c) == [i \in 0..2 |-> [j \in 0..2 |-> m[i + 1][IF j < c THEN j ELSE j + 1]]]
DetOf4(m) ==
    RAdd(RSub(RAdd(RNeg(RMul(m[0][1], DetOf3(Sub4(m, 1)))),
                   RMul(m[0][0], DetOf3(Sub4(m, 0)))),
              RMul(m[0][3], DetOf3(Sub4(m, 3)))),
         RMul(m[0][2], DetOf3(Sub4(m, 2))))

\* C4: for every 4x4 matrix M with nonzero determinant, M * Inverse(M) is the
\* identity; before the final division, M times the matrix built by invf is
\* det(M) times the identity, and the scalar D of invert is det(M).
C4_InverseIsInverse ==
    Inv4Done =>
        /\ InvertD(arg.m) = DetOf4(arg.m)
        /\ Mat4Mul(arg.m, InvertInv(arg.m)) = mat4diag(DetOf4(arg.m))
        /\ ~RIsZero(DetOf4(arg.m)) =>
              /\ Mat4Mul(arg.m, res.inverse) = mat4diag(F(1))
              /\ res.out = res.inverse

\* an invertible matrix that is neither diagonal nor symmetric
C4_Witness ==
    /\ Inv4Done
    /\ ~RIsZero(DetOf4(arg.m))
    /\ arg.m[0] = vec4(F(1), F(1), F(0), F(2))
    /\ arg.m[1] = vec4(F(0), F(-1), F(1), F(1))
    /\ res.inverse # arg.m

\* the upper-left 3x3 block of a 4x4 matrix
Block3(m) == [i \in 0..2 |-> [j \in 0..2 |-> m[i][j]]]

\* C5: InvertMatrix4x4 returns false if and only if the determinant is exactly
\* 0; for every nonzero determinant it returns true and writes an inverse,
\* also when the matrix is mat4(m3) for a 3x3 block m3 whose determinant lies
\* inside the FLT_EPSILON band, where InvertMatrix3x3(m3) returns false.
C5_Invert4FailsOnlyOnZero ==
    Inv4Done =>
        /\ (res.ok = FALSE) <=> RIsZero(InvertD(arg.m))
        /\ (res.ok = FALSE) <=> RIsZero(DetOf4(arg.m))
        /\ res.ok => Mat4Mul(arg.m, res.out) = mat4diag(F(1))
        /\ (arg.m = mat4of3(Block3(arg.m)) /\ InBand(DetOf3(Block3(arg.m)))
               /\ ~RIsZero(DetOf3(Block3(arg.m))))
              => (res.ok /\ ~InvertMatrix3x3(Block3(arg.m)).ok)

\* mat4 of a 3x3 block with determinant FLT_EPSILON/2: inverted by the 4x4
\* path, refused by the 3x3 path
C5_Witness ==
    /\ Inv4Done
    /\ arg.m = mat4of3(Block3(arg.m))
    /\ DetOf3(Block3(arg.m)) = <<1, 16777216>>
    /\ DetOf4(arg.m) = <<1, 16777216>>
    /\ res.ok /\ ~InvertMatrix3x3(Block3(arg.m)).ok
    /\ res.out[2][2] = F(16777216)

\* C8: when InvertMatrix4x4 returns false, the output buffer holds what it
\* held at the call; Inverse(mat4) of a singular matrix returns the
\* default-constructed mat4 (the identity), which is also what it returns for
\* the identity matrix: the caller gets no failure signal.
C8_FailedInvert4LeavesBuffer ==
    (Inv4Done /\ ~res.ok) =>
        /\ res.out = arg.out
        /\ res.inverse = mat4diag(F(1))
        /\ res.inverse = Inverse4(mat4diag(F(1)))

\* a singular matrix of rank 3 (its cofactors are not all zero), the buffer
\* holding something other than the identity
C8_Witness ==
    /\ Inv4Done /\ ~res.ok
    /\ arg.out = mat4diag(F(5))
    /\ InvertInv(arg.m) # mat4diag(F(0))
    /\ res.out = mat4diag(F(5))
    /\ res.inverse = mat4diag(F(1))

--------------------------------------------------------------------------
(* Quaternion: from a mat3 and back *)

\* sqrt of an integer that is a perfect square
ISqrt(n) == CHOOSE k \in 0..n : k * k = n
\* sqrt(float) where the argument is the square of a rational (the arguments
\* below are chosen so that every square root taken is exact)
RSqrt(a) == <<ISqrt(a[1]), ISqrt(a[2])>>
\* fabs(float)
RAbs(a) == <<Abs(a[1]), a[2]>>

\* const int X = 0, Y = 1, Z = 2
X == 0
Y == 1
Z == 2

\* Quaternion(float x, float y, float z, float w)
Quaternion(x, y, z, w) == [x |-> x, y |-> y, z |-> z, w |-> w]

\* caseMacro(i, j, k, I, J, K): the values assigned to i, j, k and w
CaseMacro(mat, I, J, K) ==
    LET i == RSqrt(RMul(Rat(1, 4),
                 RAdd(RSub(RSub(mat[I][I], mat[J][J]), mat[K][K]), F(1))))
        s == RDiv(Rat(1, 4), i)
    IN  [i |-> i,
         j |-> RMul(RAdd(mat[I][J], mat[J][I]), s),
         k |-> RMul(RAdd(mat[K][I], mat[I][K]), s),
         w |-> RMul(RSub(mat[K][J], mat[J][K]), s)]

\* the switch expression with > in place of >=
SwitchAxisStrict(mat) ==
    IF RLt(mat[Y][Y], mat[X][X])
    THEN (IF RLt(mat[Z][Z], mat[X][X]) THEN X ELSE Z)
    ELSE (IF RLt(mat[Z][Z], mat[Y][Y]) THEN Y ELSE Z)

\* the switch expression of Quaternion(mat3), lines 553-555
SwitchAxis(mat) ==
    IF RLe(mat[Y][Y], mat[X][X])
    THEN (IF RLe(mat[Z][Z], mat[X][X]) THEN X ELSE Z)
    ELSE (IF RLe(mat[Z][Z], mat[Y][Y]) THEN Y ELSE Z)

\* Quaternion::Quaternion(mat3 mat)
QuaternionOfMat3(mat) ==
    LET tr == RAdd(RAdd(mat[X][X], mat[Y][Y]), mat[Z][Z])
    IN  IF RLe(F(0), tr)
        THEN LET w == RSqrt(RMul(Rat(1, 4), RAdd(tr, F(1))))
                 s == RDiv(Rat(1, 4), w)
             IN  Quaternion(RMul(RSub(mat[Z][Y], mat[Y][Z]), s),
                            RMul(RSub(mat[X][Z], mat[Z][X]), s),
                            RMul(RSub(mat[Y][X], mat[X][Y]), s),
                            w)
        ELSE CASE SwitchAxis(mat) = X ->
                    LET c == CaseMacro(mat, X, Y, Z) IN Quaternion(c.i, c.j, c.k, c.w)
               [] SwitchAxis(mat) = Y ->
                    LET c == CaseMacro(mat, Y, Z, X) IN Quaternion(c.k, c.i, c.j, c.w)
               [] OTHER ->
                    LET c == CaseMacro(mat, Z, X, Y) IN Quaternion(c.j, c.k, c.i, c.w)

\* Quaternion::Norm()
QNorm(q) == RAdd(RAdd(RAdd(RMul(q.x, q.x), RMul(q.y, q.y)), RMul(q.z, q.z)), RMul(q.w, q.w))

\* Get3x3 with the identity fallback taken only when the norm is exactly zero
Get3x3ExactZeroTest(q) ==
    LET norm == QNorm(q)
    IN  IF RIsZero(norm)
        THEN mat3rows(vec3(F(1), F(0), F(0)), vec3(F(0), F(1), F(0)), vec3(F(0), F(0), F(1)))
        ELSE LET s  == RDiv(F(2), norm)
                 xs == RMul(q.x, s)  ys == RMul(q.y, s)  zs == RMul(q.z, s)
                 wx == RMul(q.w, xs) wy == RMul(q.w, ys) wz == RMul(q.w, zs)
                 xx == RMul(q.x, xs) xy == RMul(q.x, ys) xz == RMul(q.x, zs)
                 yy == RMul(q.y, ys) yz == RMul(q.y, zs) zz == RMul(q.z, zs)
             IN  mat3rows(
                   vec3(RSub(F(1), RAdd(yy, zz)), RAdd(xy, wz), RSub(xz, wy)),
                   vec3(RSub(xy, wz), RSub(F(1), RAdd(xx, zz)), RAdd(yz, wx)),
                   vec3(RAdd(xz, wy), RSub(yz, wx), RSub(F(1), RAdd(xx, yy))))

\* Quaternion::Get3x3()
Get3x3(q) ==
    LET norm == QNorm(q)
    IN  IF RLt(RAbs(norm), FLT_EPSILON)
        THEN mat3rows(vec3(F(1), F(0), F(0)), vec3(F(0), F(1), F(0)), vec3(F(0), F(0), F(1)))
        ELSE LET s  == RDiv(F(2), norm)
                 xs == RMul(q.x, s)  ys == RMul(q.y, s)  zs == RMul(q.z, s)
                 wx == RMul(q.w, xs) wy == RMul(q.w, ys) wz == RMul(q.w, zs)
                 xx == RMul(q.x, xs) xy == RMul(q.x, ys) xz == RMul(q.x, zs)
                 yy == RMul(q.y, ys) yz == RMul(q.y, zs) zz == RMul(q.z, zs)
             IN  mat3rows(
                   vec3(RSub(F(1), RAdd(yy, zz)), RAdd(xy, wz), RSub(xz, wy)),
                   vec3(RSub(xy, wz), RSub(F(1), RAdd(xx, zz)), RAdd(yz, wx)),
                   vec3(RAdd(xz, wy), RSub(yz, wx), RSub(F(1), RAdd(xx, yy))))

MaxQ == 2          \* rotations are generated from integers in -MaxQ..MaxQ

IsSquare(n) == \E k \in 0..n : k * k = n

\* The rotation by the quaternion (a, b, c, d)/sqrt(n), n = a^2+b^2+c^2+d^2 a
\* perfect square: a rational matrix whose quaternion is rational too.
RotationOf(a, b, c, d) ==
    LET n == a*a + b*b + c*c + d*d
    IN  mat3rows(
          vec3(Rat(d*d + a*a - b*b - c*c, n), Rat(2*(a*b - c*d), n), Rat(2*(a*c + b*d), n)),
          vec3(Rat(2*(a*b + c*d), n), Rat(d*d - a*a + b*b - c*c, n), Rat(2*(b*c - a*d), n)),
          vec3(Rat(2*(a*c - b*d), n), Rat(2*(b*c + a*d), n), Rat(d*d - a*a - b*b + c*c, n)))

\* a pure rotation: R * Transpose(R) is the identity and det R = 1
IsRotation(R) == Mat3Mul(R, Transpose3(R)) = mat3diag(F(1)) /\ DetOf3(R) = F(1)

Rotations ==
    {RotationOf(q[1], q[2], q[3], q[4]) :
        q \in {p \in (-MaxQ..MaxQ) \X (-MaxQ..MaxQ) \X (-MaxQ..MaxQ) \X (-MaxQ..MaxQ) :
                  /\ p # <<0, 0, 0, 0>>
                  /\ IsSquare(p[1]*p[1] + p[2]*p[2] + p[3]*p[3] + p[4]*p[4])}}

\* the argument: a pure-rotation matrix
InitQuat ==
    /\ pc = "call"
    /\ fn = "Quaternion"
    /\ \E R \in Rotations : IsRotation(R) /\ arg = [R |-> R]
    /\ res = NoRes

\* Quaternion q(R); mat3 m = q.Get3x3();
QuatRoundTrip ==
    /\ pc = "call" /\ fn = "Quaternion"
    /\ res' = [q |-> QuaternionOfMat3(arg.R), m |-> Get3x3(QuaternionOfMat3(arg.R))]
    /\ pc' = "done"
    /\ UNCHANGED <<fn, arg>>

NextQuat == QuatRoundTrip

SpecQuat == InitQuat /\ [][NextQuat]_vars

QuatDone == pc = "done" /\ fn = "Quaternion"

\* C2: for every pure-rotation matrix R, in every branch of the extraction,
\* Quaternion(R).Get3x3() equals R element by element (not its transpose).
C2_QuaternionRoundTrip ==
    QuatDone => \A i \in 0..2, j \in 0..2 : res.m[i][j] = arg.R[i][j]

\* what the code does instead: Quaternion(R).Get3x3() is the transpose of R,
\* and the quaternion extracted is a unit quaternion
QuatRoundTripIsTranspose ==
    QuatDone => (res.m = Transpose3(arg.R) /\ QNorm(res.q) = F(1))

--------------------------------------------------------------------------
(* vec3 geometry: dot, cross, length, normalize *)

\* vec3::operator-() and vec3::operator-(const vec3 &v)
vec3Neg(a) == vec3(RNeg(a[0]), RNeg(a[1]), RNeg(a[2]))
vec3Sub(a, v) == vec3(RSub(a[0], v[0]), RSub(a[1], v[1]), RSub(a[2], v[2]))
\* vec3::operator*(float s)
vec3Scale(a, s) == vec3(RMul(s, a[0]), RMul(s, a[1]), RMul(s, a[2]))
\* vec3::operator/(float s): r = 1.f/s, then *this * r
vec3Div(a, s) == LET r == RDiv(F(1), s) IN vec3Scale(a, r)

\* length(const vec3 &v), normalize(const vec3 &v)
length3(v) == RSqrt(dot3(v, v))
normalize3(v) == vec3Div(v, length3(v))

\* cross with every component negated (the left-handed product)
crossLeftHanded(a, b) ==
    vec3(RSub(RMul(a[2], b[1]), RMul(a[1], b[2])),
         RSub(RMul(a[0], b[2]), RMul(a[2], b[0])),
         RSub(RMul(a[1], b[0]), RMul(a[0], b[1])))

\* cross(const vec3 &a, const vec3 &b)
cross(a, b) ==
    vec3(RSub(RMul(a[1], b[2]), RMul(a[2], b[1])),
         RSub(RMul(a[2], b[0]), RMul(a[0], b[2])),
         RSub(RMul(a[0], b[1]), RMul(a[1], b[0])))

\* the arguments: two vec3
InitCross ==
    /\ pc = "call"
    /\ fn = "cross"
    /\ \E a \in [0..2 -> Comps], b \in [0..2 -> Comps] : arg = [a |-> a, b |-> b]
    /\ res = NoRes

\* vec3 ab = cross(a, b), ba = cross(b, a);
CrossApply ==
    /\ pc = "call" /\ fn = "cross"
    /\ res' = [ab |-> cross(arg.a, arg.b), ba |-> cross(arg.b, arg.a)]
    /\ pc' = "done"
    /\ UNCHANGED <<fn, arg>>

NextCross == CrossApply

SpecCross == InitCross /\ [][NextCross]_vars

CrossDone == pc = "done" /\ fn = "cross"

\* C15: for all vec3 a, b: dot(cross(a,b), a) = 0, dot(cross(a,b), b) = 0 and
\* cross(a,b) = -cross(b,a), exactly; cross is right-handed:
\* cross((1,0,0), (0,1,0)) = (0,0,1).
C15_CrossOrthogonalAntisymmetric ==
    CrossDone =>
        /\ dot3(res.ab, arg.a) = F(0)
        /\ dot3(res.ab, arg.b) = F(0)
        /\ res.ab = vec3Neg(res.ba)
        /\ (arg.a = vec3(F(1), F(0), F(0)) /\ arg.b = vec3(F(0), F(1), F(0))
                => res.ab = vec3(F(0), F(0), F(1)))

C15_Witness ==
    /\ CrossDone
    /\ arg.a = vec3(F(1), F(0), F(0)) /\ arg.b = vec3(F(0), F(1), F(0))
    /\ res.ab = vec3(F(0), F(0), F(1)) /\ res.ba = vec3(F(0), F(0), F(-1))

--------------------------------------------------------------------------
(* LookTowards, LookAt *)

\* LookTowards with the translation terms of the opposite sign
LookTowardsEyeAdded(eye, lookV, up) ==
    LET z == normalize3(lookV)
        x == normalize3(cross(z, up))
        y == cross(x, z)
    IN  mat4rows(vec4(x[0], x[1], x[2], dot3(x, eye)),
                 vec4(y[0], y[1], y[2], dot3(y, eye)),
                 vec4(RNeg(z[0]), RNeg(z[1]), RNeg(z[2]), RNeg(dot3(z, eye))),
                 vec4(F(0), F(0), F(0), F(1)))

\* LookTowards(vec3 eye, vec3 lookV, vec3 up)
LookTowards(eye, lookV, up) ==
    LET z == normalize3(lookV)
        x == normalize3(cross(z, up))
        y == cross(x, z)
    IN  mat4rows(vec4(x[0], x[1], x[2], RNeg(dot3(x, eye))),
                 vec4(y[0], y[1], y[2], RNeg(dot3(y, eye))),
                 vec4(RNeg(z[0]), RNeg(z[1]), RNeg(z[2]), dot3(z, eye)),
                 vec4(F(0), F(0), F(0), F(1)))

\* LookAt(vec3 eye, vec3 lookat, vec3 up)
LookAt(eye, lookat, up) == LookTowards(eye, vec3Sub(lookat, eye), up)

MaxL == 5          \* the components of lookat - eye are drawn from -MaxL..MaxL

IsSquareRat(a) == IsSquare(a[1]) /\ IsSquare(a[2])

\* the basis is defined (lookV # 0, up not parallel to lookV) and both square
\* roots taken are exact
BasisDefined(lookV, up) ==
    /\ ~RIsZero(dot3(lookV, lookV))
    /\ IsSquareRat(dot3(lookV, lookV))
    /\ LET c == cross(normalize3(lookV), up)
       IN  ~RIsZero(dot3(c, c)) /\ IsSquareRat(dot3(c, c))

Eyes == {vec3(F(0), F(0), F(5)), vec3(F(0), F(0), F(0)), vec3(F(1), F(2), F(3)),
         vec3(F(-2), F(1), F(0))}

LookVs == {vec3(F(a), F(b), F(c)) : a \in -MaxL..MaxL, b \in -MaxL..MaxL, c \in -MaxL..MaxL}

Ups == {vec3(F(0), F(1), F(0)), vec3(F(0), F(0), F(1)), vec3(F(1), F(0), F(0)),
        vec3(F(0), F(-1), F(0)), vec3(F(0), F(3), F(4))}

vec3Add(a, v) == vec3(RAdd(a[0], v[0]), RAdd(a[1], v[1]), RAdd(a[2], v[2]))

\* the arguments: eye, the point looked at (LookAt) or the direction
\* (LookTowards), and up
InitLook ==
    /\ pc = "call"
    /\ res = NoRes
    /\ \E eye \in Eyes, d \in LookVs, up \in Ups :
           /\ BasisDefined(d, up)
           /\ \/ fn = "LookAt" /\ arg = [eye |-> eye, look |-> vec3Add(eye, d), up |-> up]
              \/ fn = "LookTowards" /\ arg = [eye |-> eye, look |-> d, up |-> up]

LookAtApply ==
    /\ pc = "call" /\ fn = "LookAt"
    /\ res' = LookAt(arg.eye, arg.look, arg.up)
    /\ pc' = "done"
    /\ UNCHANGED <<fn, arg>>

LookTowardsApply ==
    /\ pc = "call" /\ fn = "LookTowards"
    /\ res' = LookTowards(arg.eye, arg.look, arg.up)
    /\ pc' = "done"
    /\ UNCHANGED <<fn, arg>>

NextLook == LookAtApply \/ LookTowardsApply

SpecLook == InitLook /\ [][NextLook]_vars

LookAtDone == pc = "done" /\ fn = "LookAt"

EyePoint == vec4(arg.eye[0], arg.eye[1], arg.eye[2], F(1))

\* C11: whenever the basis is defined, LookAt(eye, lookAt, up) * (eye, 1) =
\* (0,0,0,1), in particular for eye = (0,0,5), lookAt = (0,0,0), up = (0,1,0);
\* and LookAt(eye, p, up) is the matrix LookTowards(eye, p - eye, up).
C11_LookAtMapsEyeToOrigin ==
    /\ LookAtDone =>
          /\ Mat4MulVec(res, EyePoint) = vec4(F(0), F(0), F(0), F(1))
          /\ res = LookTowards(arg.eye, vec3Sub(arg.look, arg.eye), arg.up)
    /\ (pc = "done" /\ fn = "LookTowards") =>
          Mat4MulVec(res, EyePoint) = vec4(F(0), F(0), F(0), F(1))

C11_Witness ==
    /\ LookAtDone
    /\ arg.eye = vec3(F(0), F(0), F(5))
    /\ arg.look = vec3(F(0), F(0), F(0))
    /\ arg.up = vec3(F(0), F(1), F(0))
    /\ Mat4MulVec(res, EyePoint) = vec4(F(0), F(0), F(0), F(1))
    /\ res[2] = vec4(F(0), F(0), F(1), F(-5))

--------------------------------------------------------------------------
(* RotateX, RotateY, RotateZ *)

\* A float that holds an angle is modelled by its unit and by the cosine and
\* sine of the angle it measures, a rational point <<c, s>> of the unit circle
\* (cos and sin are exact on these).
Angle(unit, c, s) == [unit |-> unit, c |-> c, s |-> s]

\* DegreesToRadians*theta: the same angle, measured in radians
Radians(theta) == [theta EXCEPT !.unit = "rad"]

\* cos(angle), sin(angle): the argument is in radians
Cos(angle) == CASE angle.unit = "rad" -> angle.c
Sin(angle) == CASE angle.unit = "rad" -> angle.s

\* RotateZ with the sine terms exchanged (the rotation of the opposite sense)
RotateZClockwise(theta) ==
    LET angle == Radians(theta)
        c     == mat4diag(F(1))
    IN  [c EXCEPT ![0][0] = Cos(angle), ![1][1] = Cos(angle),
                  ![0][1] = Sin(angle), ![1][0] = RNeg(Sin(angle))]

\* RotateX(float theta)
RotateX(theta) ==
    LET angle == Radians(theta)
        c     == mat4diag(F(1))
    IN  [c EXCEPT ![2][2] = Cos(angle), ![1][1] = Cos(angle),
                  ![2][1] = Sin(angle), ![1][2] = RNeg(Sin(angle))]

\* RotateY(float theta)
RotateY(theta) ==
    LET angle == Radians(theta)
        c     == mat4diag(F(1))
    IN  [c EXCEPT ![2][2] = Cos(angle), ![0][0] = Cos(angle),
                  ![0][2] = Sin(angle), ![2][0] = RNeg(Sin(angle))]

\* RotateZ(float theta)
RotateZ(theta) ==
    LET angle == Radians(theta)
        c     == mat4diag(F(1))
    IN  [c EXCEPT ![0][0] = Cos(angle), ![1][1] = Cos(angle),
                  ![1][0] = Sin(angle), ![0][1] = RNeg(Sin(angle))]

\* the rational points p/q of the unit circle used as angles: the quarter
\* turns and the angles of the 3-4-5 triangle in every quadrant
CirclePoints ==
    {<<F(1), F(0)>>, <<F(0), F(1)>>, <<F(-1), F(0)>>, <<F(0), F(-1)>>} \cup
    {<<Rat(a, 5), Rat(b, 5)>> : a \in {-3, 3}, b \in {-4, 4}} \cup
    {<<Rat(a, 5), Rat(b, 5)>> : a \in {-4, 4}, b \in {-3, 3}}

Thetas == {Angle("deg", p[1], p[2]) : p \in CirclePoints}

\* 90 degrees: cos = 0, sin = 1
Deg90 == Angle("deg", F(0), F(1))

\* the arguments: the angle in degrees; v is the vector the matrix is applied to
InitRotate ==
    /\ pc = "call"
    /\ fn \in {"RotateX", "RotateY", "RotateZ"}
    /\ \E theta \in Thetas, v \in [0..3 -> Comps] : arg = [theta |-> theta, v |-> v]
    /\ res = NoRes

RotateXApply ==
    /\ pc = "call" /\ fn = "RotateX"
    /\ res' = [m |-> RotateX(arg.theta), mv |-> Mat4MulVec(RotateX(arg.theta), arg.v)]
    /\ pc' = "done"
    /\ UNCHANGED <<fn, arg>>

RotateYApply ==
    /\ pc = "call" /\ fn = "RotateY"
    /\ res' = [m |-> RotateY(arg.theta), mv |-> Mat4MulVec(RotateY(arg.theta), arg.v)]
    /\ pc' = "done"
    /\ UNCHANGED <<fn, arg>>

RotateZApply ==
    /\ pc = "call" /\ fn = "RotateZ"
    /\ res' = [m |-> RotateZ(arg.theta), mv |-> Mat4MulVec(RotateZ(arg.theta), arg.v)]
    /\ pc' = "done"
    /\ UNCHANGED <<fn, arg>>

NextRotate == RotateXApply \/ RotateYApply \/ RotateZApply

SpecRotate == InitRotate /\ [][NextRotate]_vars

RotateDone == pc = "done" /\ fn \in {"RotateX", "RotateY", "RotateZ"}

AxisOf(f) == CASE f = "RotateX" -> 0 [] f = "RotateY" -> 1 [] f = "RotateZ" -> 2

UnitVec4(k) == [i \in 0..3 |-> IF i = k THEN F(1) ELSE F(0)]

\* C12: RotateX/Y/Z take degrees and build right-handed rotations: with
\* cos(90 deg) = 0, sin(90 deg) = 1, RotateY(90)*(1,0,0,0) = (0,0,-1,0),
\* RotateZ(90)*(1,0,0,0) = (0,1,0,0), RotateX(90)*(0,1,0,0) = (0,0,1,0); each
\* leaves its own axis vector and the w row and column (0,0,0,1) unchanged.
C12_RightHandedRotations ==
    RotateDone =>
        /\ (arg.theta = Deg90 /\ fn = "RotateY" /\ arg.v = UnitVec4(0))
               => res.mv = vec4(F(0), F(0), F(-1), F(0))
        /\ (arg.theta = Deg90 /\ fn = "RotateZ" /\ arg.v = UnitVec4(0))
               => res.mv = vec4(F(0), F(1), F(0), F(0))
        /\ (arg.theta = Deg90 /\ fn = "RotateX" /\ arg.v = UnitVec4(1))
               => res.mv = vec4(F(0), F(0), F(1), F(0))
        /\ (fn = "RotateY" /\ arg.v = UnitVec4(0))
               => res.mv = vec4(arg.theta.c, F(0), RNeg(arg.theta.s), F(0))
        /\ (fn = "RotateZ" /\ arg.v = UnitVec4(0))
               => res.mv = vec4(arg.theta.c, arg.theta.s, F(0), F(0))
        /\ (fn = "RotateX" /\ arg.v = UnitVec4(1))
               => res.mv = vec4(F(0), arg.theta.c, arg.theta.s, F(0))
        /\ arg.v = UnitVec4(AxisOf(fn)) => res.mv = arg.v
        /\ Mat4MulVec(res.m, UnitVec4(AxisOf(fn))) = UnitVec4(AxisOf(fn))
        /\ res.m[AxisOf(fn)] = UnitVec4(AxisOf(fn))
        /\ res.m[3] = UnitVec4(3)
        /\ \A i \in 0..3 : res.m[i][3] = UnitVec4(3)[i]
        /\ res.mv[3] = arg.v[3]

C12_Witness ==
    /\ RotateDone
    /\ arg.theta = Deg90 /\ fn = "RotateZ" /\ arg.v = UnitVec4(0)
    /\ res.mv = vec4(F(0), F(1), F(0), F(0))
    /\ res.m[3] = UnitVec4(3)

--------------------------------------------------------------------------
(* Bounds *)

\* The floats of Bounds are rationals or one of the two infinities, written
\* as the fractions 1/0 and -1/0.
PosInf == <<1, 0>>
NegInf == <<-1, 0>>

\* FLT_MAX, the largest finite float (about 3.4e38): it stands as 2^20 here,
\* larger than the magnitude of every coordinate used, and a result of larger
\* magnitude overflows to an infinity.
FLT_MAX == Rat(1048576, 1)

\* a < b and a > b on floats
FLt(a, b) ==
    IF a = b THEN FALSE
    ELSE IF a = PosInf \/ b = NegInf THEN FALSE
    ELSE IF a = NegInf \/ b = PosInf THEN TRUE
    ELSE RLt(a, b)
FGt(a, b) == FLt(b, a)

\* a - b on floats: an infinite operand gives an infinity (NaN for the
\* difference of equal infinities), a finite difference beyond FLT_MAX
\* overflows
NaN == <<0, 0>>
FSub(a, b) ==
    IF a[2] = 0 \/ b[2] = 0
    THEN (IF a = b THEN NaN ELSE IF a = PosInf \/ b = NegInf THEN PosInf ELSE NegInf)
    ELSE LET d == RSub(a, b)
         IN  IF RLt(FLT_MAX, d) THEN PosInf
             ELSE IF RLt(d, RNeg(FLT_MAX)) THEN NegInf
             ELSE d

\* vec2(float s), vec3(float s): every component is s
vecSplat(n, s) == [i \in 0..n-1 |-> s]

\* max = -(min = vecN(FLT_MAX)) with infinity in place of FLT_MAX
BoundsSentinelsInfinite(n) ==
    [min |-> vecSplat(n, PosInf), max |-> vecSplat(n, NegInf)]

\* max = -(min = vecN(FLT_MAX))
BoundsSentinels(n) ==
    [min |-> vecSplat(n, FLT_MAX), max |-> vecSplat(n, RNeg(FLT_MAX))]

\* the loop body for the point p: componentwise minimum and maximum
BoundsStep(mm, p, n) ==
    [min |-> [k \in 0..n-1 |-> IF FLt(mm.min[k], p[k]) THEN mm.min[k] ELSE p[k]],
     max |-> [k \in 0..n-1 |-> IF FGt(mm.max[k], p[k]) THEN mm.max[k] ELSE p[k]]]

\* for (int i = 0; i < npoints; i++), npoints = Len(points), from index i on
RECURSIVE BoundsLoop(_, _, _, _)
BoundsLoop(points, i, mm, n) ==
    IF i < Len(points)
    THEN BoundsLoop(points, i + 1, BoundsStep(mm, points[i + 1], n), n)
    ELSE mm

\* Bounds(vec3 *) returning the larger of the x and y spans only
Bounds3SpanXY(points) ==
    LET mm  == BoundsLoop(points, 0, BoundsSentinels(3), 3)
        dif == [k \in 0..2 |-> FSub(mm.max[k], mm.min[k])]
    IN  [min |-> mm.min, max |-> mm.max,
         ret |-> IF FGt(dif[0], dif[1]) THEN dif[0] ELSE dif[1]]

\* Bounds(vec2 *points, int npoints, vec2 &min, vec2 &max): min, max and the
\* value returned
Bounds2(points) ==
    LET mm  == BoundsLoop(points, 0, BoundsSentinels(2), 2)
        dif == [k \in 0..1 |-> FSub(mm.max[k], mm.min[k])]
    IN  [min |-> mm.min, max |-> mm.max,
         ret |-> IF FGt(dif[0], dif[1]) THEN dif[0] ELSE dif[1]]

\* Bounds(vec3 *points, int npoints, vec3 &min, vec3 &max)
Bounds3(points) ==
    LET mm  == BoundsLoop(points, 0, BoundsSentinels(3), 3)
        dif == [k \in 0..2 |-> FSub(mm.max[k], mm.min[k])]
    IN  [min |-> mm.min, max |-> mm.max,
         ret |-> IF FGt(dif[0], dif[1])
                 THEN (IF FGt(dif[2], dif[0]) THEN dif[2] ELSE dif[0])
                 ELSE (IF FGt(dif[2], dif[1]) THEN dif[2] ELSE dif[1])]

MaxPts == 3        \* the point sequences have 0..MaxPts points

Points2 == {vec2(F(0), F(0)), vec2(F(2), F(3)), vec2(F(-1), F(5)), vec2(F(1), F(-2)),
            vec2(Rat(7, 2), Rat(1, 2))}

Points3 == {vec3(F(0), F(0), F(0)), vec3(F(2), F(3), F(1)), vec3(F(-1), F(5), F(-4)),
            vec3(F(1), F(-2), F(6)), vec3(Rat(7, 2), Rat(1, 2), F(0))}

SeqsUpTo(S, n) == UNION {[1..k -> S] : k \in 0..n}

\* the arguments: the points (npoints is their number)
InitBounds ==
    /\ pc = "call"
    /\ res = NoRes
    /\ \/ fn = "Bounds2" /\ \E points \in SeqsUpTo(Points2, MaxPts) : arg = [points |-> points]
       \/ fn = "Bounds3" /\ \E points \in SeqsUpTo(Points3, MaxPts) : arg = [points |-> points]

Bounds2Apply ==
    /\ pc = "call" /\ fn = "Bounds2"
    /\ res' = Bounds2(arg.points)
    /\ pc' = "done"
    /\ UNCHANGED <<fn, arg>>

Bounds3Apply ==
    /\ pc = "call" /\ fn = "Bounds3"
    /\ res' = Bounds3(arg.points)
    /\ pc' = "done"
    /\ UNCHANGED <<fn, arg>>

NextBounds == Bounds2Apply \/ Bounds3Apply

SpecBounds == InitBounds /\ [][NextBounds]_vars

BoundsDone == pc = "done" /\ fn \in {"Bounds2", "Bounds3"}

Dim == IF fn = "Bounds2" THEN 2 ELSE 3

\* m is the least (greatest) k-th coordinate of the points
IsLeast(m, k) ==
    /\ \E i \in 1..Len(arg.points) : arg.points[i][k] = m
    /\ \A i \in 1..Len(arg.points) : RLe(m, arg.points[i][k])
IsGreatest(m, k) ==
    /\ \E i \in 1..Len(arg.points) : arg.points[i][k] = m
    /\ \A i \in 1..Len(arg.points) : RLe(arg.points[i][k], m)

\* C13: for every non-empty sequence of points (in any order), min is the
\* componentwise minimum, max the componentwise maximum and the value
\* returned the largest per-axis difference max-min, for the vec2 and the
\* vec3 overload; {(0,0),(2,3),(-1,5)} gives min=(-1,0), max=(2,5), 5.
C13_BoundsMinMaxSpan ==
    (BoundsDone /\ Len(arg.points) > 0) =>
        /\ \A k \in 0..Dim-1 : IsLeast(res.min[k], k) /\ IsGreatest(res.max[k], k)
        /\ \E k \in 0..Dim-1 : res.ret = RSub(res.max[k], res.min[k])
        /\ \A k \in 0..Dim-1 : RLe(RSub(res.max[k], res.min[k]), res.ret)
        /\ (fn = "Bounds2" /\ {arg.points[i] : i \in 1..Len(arg.points)}
                                = {vec2(F(0), F(0)), vec2(F(2), F(3)), vec2(F(-1), F(5))})
             => (res.min = vec2(F(-1), F(0)) /\ res.max = vec2(F(2), F(5)) /\ res.ret = F(5))

C13_Witness ==
    /\ BoundsDone
    /\ arg.points = <<vec2(F(0), F(0)), vec2(F(2), F(3)), vec2(F(-1), F(5))>>
    /\ res.min = vec2(F(-1), F(0)) /\ res.max = vec2(F(2), F(5)) /\ res.ret = F(5)

\* the z span decides the value returned by the vec3 overload
C13_WitnessVec3 ==
    /\ BoundsDone /\ fn = "Bounds3"
    /\ Len(arg.points) = 3
    /\ res.ret = RSub(res.max[2], res.min[2])
    /\ RLt(RSub(res.max[0], res.min[0]), res.ret)
    /\ RLt(RSub(res.max[1], res.min[1]), res.ret)

\* C14 (as stated): called with zero points, Bounds leaves min at +infinity
\* and max at -infinity in every component, min > max componentwise, and the
\* value returned is not a non-negative extent.
C14_EmptyLeavesInfinities ==
    (BoundsDone /\ Len(arg.points) = 0) =>
        /\ \A k \in 0..Dim-1 : res.min[k] = PosInf /\ res.max[k] = NegInf
        /\ \A k \in 0..Dim-1 : FGt(res.min[k], res.max[k])
        /\ FLt(res.ret, F(0))

\* C14 (amended): called with zero points, Bounds leaves min at FLT_MAX and
\* max at -FLT_MAX in every component (finite values, not infinities),
\* min > max componentwise, and the value returned, -FLT_MAX - FLT_MAX,
\* overflows to -infinity: not a non-negative extent.
C14_EmptyLeavesFltMax ==
    (BoundsDone /\ Len(arg.points) = 0) =>
        /\ \A k \in 0..Dim-1 : res.min[k] = FLT_MAX /\ res.max[k] = RNeg(FLT_MAX)
        /\ \A k \in 0..Dim-1 : res.min[k] # PosInf /\ res.max[k] # NegInf
        /\ \A k \in 0..Dim-1 : FGt(res.min[k], res.max[k])
        /\ res.ret = NegInf /\ FLt(res.ret, F(0))

C14_Witness ==
    /\ BoundsDone /\ fn = "Bounds3"
    /\ arg.points = << >>
    /\ res.min = vec3(FLT_MAX, FLT_MAX, FLT_MAX)
    /\ res.ret = NegInf

--------------------------------------------------------------------------
(* Quaternion::Slerp *)

\* Quaternion::operator+(const Quaternion &q), Quaternion::operator*(float s)
QAdd(a, q) == Quaternion(RAdd(a.x, q.x), RAdd(a.y, q.y), RAdd(a.z, q.z), RAdd(a.w, q.w))
QScale(a, s) == Quaternion(RMul(s, a.x), RMul(s, a.y), RMul(s, a.z), RMul(s, a.w))

\* Quaternion::Dot(Quaternion &qL, Quaternion &qR)
QDot(qL, qR) ==
    RAdd(RAdd(RAdd(RMul(qL.x, qR.x), RMul(qL.y, qR.y)), RMul(qL.z, qR.z)), RMul(qL.w, qR.w))

\* float epsilon = .00001f
epsilon == Rat(1, 100000)

\* n1/d1 < n2/d2 (d1, d2 > 0) by comparing the integer parts and then the
\* reciprocals of the fractional parts: no product of the operands is formed
RECURSIVE FracLess(_, _, _, _)
FracLess(n1, d1, n2, d2) ==
    IF n1 \div d1 # n2 \div d2 THEN n1 \div d1 < n2 \div d2
    ELSE IF n2 % d2 = 0 THEN FALSE
    ELSE IF n1 % d1 = 0 THEN TRUE
    ELSE FracLess(d2, n2 % d2, d1, n1 % d1)

\* a < b on floats whose cross products exceed the integer range
RLess(a, b) == FracLess(a[1], a[2], b[1], b[2])

\* sin(k*omega)/sin(omega) for omega = acos(cosOmega) and an integer k: with
\* exact sin and acos it is given by the recurrence
\* s(k+1) = 2*cos(omega)*s(k) - s(k-1), s(0) = 0, s(1) = 1, s(-k) = -s(k)
RECURSIVE SinMultipleOverSin(_, _)
SinMultipleOverSin(k, cosOmega) ==
    IF k < 0 THEN RNeg(SinMultipleOverSin(-k, cosOmega))
    ELSE IF k = 0 THEN F(0)
    ELSE IF k = 1 THEN F(1)
    ELSE RSub(RMul(RMul(F(2), cosOmega), SinMultipleOverSin(k - 1, cosOmega)),
              SinMultipleOverSin(k - 2, cosOmega))

\* sin(x*_PI) for x a multiple of 1/2, with exact sin and _PI standing for pi
SinPiTimes(x) ==
    LET h == (x[1] * (2 \div x[2])) % 4
    IN  CASE h = 0 -> F(0) [] h = 1 -> F(1) [] h = 2 -> F(0) [] h = 3 -> F(-1)

\* Slerp with the weights of the "ends very close" branch exchanged
SlerpCloseWeightsSwapped(qu0, qu1, t) ==
    LET cosOmega == QDot(qu0, qu1)
    IN  IF RLess(epsilon, RAdd(F(1), cosOmega))
        THEN LET usual   == RLess(epsilon, RSub(F(1), cosOmega))
                 qu0Part == IF usual THEN SinMultipleOverSin(RSub(F(1), t)[1], cosOmega)
                                     ELSE t
                 qu1Part == IF usual THEN SinMultipleOverSin(t[1], cosOmega)
                                     ELSE RSub(F(1), t)
             IN  QAdd(QScale(qu0, qu0Part), QScale(qu1, qu1Part))
        ELSE LET qup     == Quaternion(RNeg(qu0.y), qu0.x, RNeg(qu0.w), qu0.z)
                 qu0Part == SinPiTimes(RSub(Rat(1, 2), t))
                 qu1Part == SinPiTimes(t)
             IN  QAdd(QScale(qu0, qu0Part), QScale(qup, qu1Part))

\* Slerp blending qu0 with qu1, not with qup, in the nearly-opposite branch
SlerpOppositeUsesQu1(qu0, qu1, t) ==
    LET cosOmega == QDot(qu0, qu1)
    IN  IF RLess(epsilon, RAdd(F(1), cosOmega))
        THEN LET usual   == RLess(epsilon, RSub(F(1), cosOmega))
                 qu0Part == IF usual THEN SinMultipleOverSin(RSub(F(1), t)[1], cosOmega)
                                     ELSE RSub(F(1), t)
                 qu1Part == IF usual THEN SinMultipleOverSin(t[1], cosOmega)
                                     ELSE t
             IN  QAdd(QScale(qu0, qu0Part), QScale(qu1, qu1Part))
        ELSE LET qup     == Quaternion(RNeg(qu0.y), qu0.x, RNeg(qu0.w), qu0.z)
                 qu0Part == SinPiTimes(RSub(Rat(1, 2), t))
                 qu1Part == SinPiTimes(t)
             IN  QAdd(QScale(qu0, qu0Part), QScale(qu1, qu1Part))

\* Quaternion::Slerp(Quaternion &qu0, Quaternion &qu1, float t): the value
\* stored in *this; t is an integer in the sine-weighted branch and a
\* multiple of 1/2 in the nearly-opposite branch
Slerp(qu0, qu1, t) ==
    LET cosOmega == QDot(qu0, qu1)
    IN  IF RLess(epsilon, RAdd(F(1), cosOmega))
        THEN LET usual   == RLess(epsilon, RSub(F(1), cosOmega))
                 qu0Part == IF usual THEN SinMultipleOverSin(RSub(F(1), t)[1], cosOmega)
                                     ELSE RSub(F(1), t)
                 qu1Part == IF usual THEN SinMultipleOverSin(t[1], cosOmega)
                                     ELSE t
             IN  QAdd(QScale(qu0, qu0Part), QScale(qu1, qu1Part))
        ELSE LET qup     == Quaternion(RNeg(qu0.y), qu0.x, RNeg(qu0.w), qu0.z)
                 qu0Part == SinPiTimes(RSub(Rat(1, 2), t))
                 qu1Part == SinPiTimes(t)
             IN  QAdd(QScale(qu0, qu0Part), QScale(qup, qu1Part))

\* which branch Slerp takes
SlerpBranch(qu0, qu1) ==
    IF RLess(epsilon, RAdd(F(1), QDot(qu0, qu1)))
    THEN (IF RLess(epsilon, RSub(F(1), QDot(qu0, qu1))) THEN "usual" ELSE "close")
    ELSE "opposite"

MaxT == 1          \* t is drawn from 0..MaxT

QNeg(q) == QScale(q, F(-1))

\* unit quaternions with small components
UnitsCoarse ==
    {Quaternion(F(0), F(0), F(0), F(1)), Quaternion(F(1), F(0), F(0), F(0)),
     Quaternion(F(0), F(1), F(0), F(0)), Quaternion(F(0), F(0), F(-1), F(0)),
     Quaternion(Rat(1, 2), Rat(1, 2), Rat(1, 2), Rat(1, 2)),
     Quaternion(Rat(-1, 2), Rat(1, 2), Rat(-1, 2), Rat(1, 2)),
     Quaternion(F(0), Rat(3, 5), F(0), Rat(4, 5)),
     Quaternion(Rat(2, 3), Rat(-1, 3), Rat(2, 3), F(0))}

\* the unit quaternion (2ab, 0, 0, a^2-b^2)/(a^2+b^2): at the angle
\* 2*atan(b/a) from (0,0,0,1)
UnitNearW(a, b) == Quaternion(Rat(2*a*b, a*a + b*b), F(0), F(0), Rat(a*a - b*b, a*a + b*b))
\* the same in the x-y plane, next to (1,0,0,0)
UnitNearX(a, b) == Quaternion(Rat(a*a - b*b, a*a + b*b), Rat(2*a*b, a*a + b*b), F(0), F(0))

\* pairs of unit quaternions: all coarse pairs and every coarse quaternion
\* with its negative
SlerpPairsCoarse ==
    (UnitsCoarse \X UnitsCoarse) \cup {<<q, QNeg(q)>> : q \in UnitsCoarse}

\* (0,0,0,1) and (1,0,0,0) with close and nearly opposite quaternions on
\* both sides of the epsilon thresholds
SlerpPairsNear ==
    {<<Quaternion(F(0), F(0), F(0), F(1)), s>> :
        s \in {UnitNearW(500, 1), QNeg(UnitNearW(500, 1)), UnitNearW(500, -1),
               UnitNearW(100, 1), QNeg(UnitNearW(100, 1)), QNeg(UnitNearW(400, -1))}} \cup
    {<<Quaternion(F(1), F(0), F(0), F(0)), s>> :
        s \in {UnitNearX(500, 1), QNeg(UnitNearX(500, 1)), UnitNearX(100, 1),
               QNeg(UnitNearX(100, -1))}}

\* half-integer values of t, for the pairs outside the sine-weighted branch
HalfTs == {Rat(-1, 2), Rat(1, 2), Rat(3, 2)}

\* the arguments: two unit quaternions and t (the end points t = 0, 1 for the
\* pairs with large denominators)
InitSlerp ==
    /\ pc = "call"
    /\ fn = "Slerp"
    /\ \/ \E p \in SlerpPairsCoarse, t \in 0..MaxT :
              arg = [qu0 |-> p[1], qu1 |-> p[2], t |-> F(t)]
       \/ \E p \in SlerpPairsNear, t \in 0..1 :
              arg = [qu0 |-> p[1], qu1 |-> p[2], t |-> F(t)]
       \/ \E p \in SlerpPairsCoarse \cup SlerpPairsNear, t \in HalfTs :
              /\ SlerpBranch(p[1], p[2]) # "usual"
              /\ arg = [qu0 |-> p[1], qu1 |-> p[2], t |-> t]
    /\ res = NoRes

\* q.Slerp(qu0, qu1, t)
SlerpApply ==
    /\ pc = "call" /\ fn = "Slerp"
    /\ res' = Slerp(arg.qu0, arg.qu1, arg.t)
    /\ pc' = "done"
    /\ UNCHANGED <<fn, arg>>

NextSlerp == SlerpApply

SpecSlerp == InitSlerp /\ [][NextSlerp]_vars

SlerpDone == pc = "done" /\ fn = "Slerp"

\* C16: for unit quaternions q0, q1, in each of the three branches,
\* Slerp(q0,q1,0) stores q0 and Slerp(q0,q1,1) stores q1, within the epsilon
\* tolerance that selects the branch: exactly in the usual and the
\* very-close branch and at t = 0; at t = 1 in the nearly-opposite branch the
\* value stored is -q0, which is as close to q1 as the branch test demands
\* (1 - Dot(stored, q1) <= epsilon).
C16_SlerpEndpoints ==
    SlerpDone =>
        /\ arg.t = F(0) => res = arg.qu0
        /\ (arg.t = F(1) /\ SlerpBranch(arg.qu0, arg.qu1) # "opposite") => res = arg.qu1
        /\ (arg.t = F(1) /\ SlerpBranch(arg.qu0, arg.qu1) = "opposite")
              => (res = QNeg(arg.qu0) /\ ~RLess(epsilon, RSub(F(1), QDot(res, arg.qu1))))

\* the nearly-opposite branch at t = 1 with q1 # -q0
C16_Witness ==
    /\ SlerpDone
    /\ arg.t = F(1)
    /\ SlerpBranch(arg.qu0, arg.qu1) = "opposite"
    /\ arg.qu1 # QNeg(arg.qu0)
    /\ res = QNeg(arg.qu0)

C16_WitnessClose ==
    /\ SlerpDone /\ arg.t = F(1)
    /\ SlerpBranch(arg.qu0, arg.qu1) = "close" /\ arg.qu1 # arg.qu0 /\ res = arg.qu1

C16_WitnessUsual ==
    /\ SlerpDone /\ arg.t = F(1)
    /\ SlerpBranch(arg.qu0, arg.qu1) = "usual" /\ res = arg.qu1
    /\ arg.qu1 = UnitNearW(100, 1)

--------------------------------------------------------------------------
(* Quaternion(), Get3x3 on quaternions of small norm *)

\* Quaternion(): the member initialisers x = 0, y = 0, z = 0, w = 0
QuaternionDefault == Quaternion(F(0), F(0), F(0), F(0))

\* whether Get3x3 reaches float s = 2/norm
Get3x3Divides(q) == ~RLt(RAbs(QNorm(q)), FLT_EPSILON)

\* components: 0, 2^-12, 2^-11 and 1 (the squares of the small ones lie on
\* both sides of FLT_EPSILON = 2^-23)
SmallComps == {F(0), Rat(1, 4096), Rat(1, 2048), F(1)}

\* the quaternion: default-constructed, or built from four components
InitGet3x3 ==
    /\ pc = "call"
    /\ fn = "Get3x3"
    /\ \/ arg = [how |-> "Quaternion()", q |-> QuaternionDefault]
       \/ \E x \in SmallComps, y \in SmallComps, z \in SmallComps, w \in SmallComps :
              arg = [how |-> "Quaternion(x,y,z,w)", q |-> Quaternion(x, y, z, w)]
    /\ res = NoRes

\* mat3 m = q.Get3x3();
Get3x3Apply ==
    /\ pc = "call" /\ fn = "Get3x3"
    /\ res' = [m |-> Get3x3(arg.q), divided |-> Get3x3Divides(arg.q)]
    /\ pc' = "done"
    /\ UNCHANGED <<fn, arg>>

NextGet3x3 == Get3x3Apply

SpecGet3x3 == InitGet3x3 /\ [][NextGet3x3]_vars

Get3x3Done == pc = "done" /\ fn = "Get3x3"

\* C17: a default-constructed Quaternion is (0,0,0,0), not (0,0,0,1);
\* Get3x3() on any quaternion whose Norm() is below FLT_EPSILON, the default
\* one included, returns exactly the 3x3 identity and never divides by the
\* norm.
C17_DefaultAndSmallNormIdentity ==
    Get3x3Done =>
        /\ arg.how = "Quaternion()" =>
              /\ arg.q = Quaternion(F(0), F(0), F(0), F(0))
              /\ arg.q # Quaternion(F(0), F(0), F(0), F(1))
              /\ res.m = mat3diag(F(1)) /\ ~res.divided
        /\ RLt(QNorm(arg.q), FLT_EPSILON) => (res.m = mat3diag(F(1)) /\ ~res.divided)

\* a non-zero quaternion of norm 2^-24 < FLT_EPSILON
C17_Witness ==
    /\ Get3x3Done
    /\ arg.q = Quaternion(Rat(1, 4096), F(0), F(0), F(0))
    /\ RLt(QNorm(arg.q), FLT_EPSILON) /\ ~RIsZero(QNorm(arg.q))
    /\ res.m = mat3diag(F(1)) /\ ~res.divided

C17_WitnessDefault ==
    Get3x3Done /\ arg.how = "Quaternion()" /\ res.m = mat3diag(F(1))

\* at norm = FLT_EPSILON and above the rotation matrix is computed
C17_WitnessAtEpsilon ==
    /\ Get3x3Done
    /\ QNorm(arg.q) = FLT_EPSILON
    /\ res.divided /\ res.m # mat3diag(F(1))

--------------------------------------------------------------------------
(* Flint, int2, int3, int4 *)

\* floor(x): the greatest integer not above x, as a float
Floor(x) == F(x[1] \div x[2])

\* (int) x: the fractional part is discarded (truncation toward zero)
IntCast(x) == IF x[1] >= 0 THEN x[1] \div x[2] ELSE -((-x[1]) \div x[2])

\* Flint without floor: (int) x
FlintTruncates(x) == IntCast(x)

\* Flint(float x)
Flint(x) == IntCast(Floor(x))

\* int2(vec2 v), int3(vec3 v), int4(vec4 v)
int2(v) == [i1 |-> Flint(v[0]), i2 |-> Flint(v[1])]
int3(v) == [i1 |-> Flint(v[0]), i2 |-> Flint(v[1]), i3 |-> Flint(v[2])]
int4(v) == [i1 |-> Flint(v[0]), i2 |-> Flint(v[1]), i3 |-> Flint(v[2]), i4 |-> Flint(v[3])]

\* int2::operator==, int3::operator==, int4::operator==
int2Eq(a, rhs) == a.i1 = rhs.i1 /\ a.i2 = rhs.i2
int3Eq(a, rhs) == a.i1 = rhs.i1 /\ a.i2 = rhs.i2 /\ a.i3 = rhs.i3
int4Eq(a, rhs) == a.i1 = rhs.i1 /\ a.i2 = rhs.i2 /\ a.i3 = rhs.i3 /\ a.i4 = rhs.i4

MaxH == 2          \* the components of v are the halves k/2, k in -MaxH..MaxH

Halves == {Rat(k, 2) : k \in -MaxH..MaxH}

\* the components of the second vector
RhsComps == {Rat(-1, 2), Rat(1, 4)}

\* the arguments: the float vector v converted, and the float vector u whose
\* conversion it is compared with
InitFlint ==
    /\ pc = "call"
    /\ res = NoRes
    /\ \/ fn = "int2" /\ \E v \in [0..1 -> Halves], u \in [0..1 -> RhsComps] : arg = [v |-> v, u |-> u]
       \/ fn = "int3" /\ \E v \in [0..2 -> Halves], u \in [0..2 -> RhsComps] : arg = [v |-> v, u |-> u]
       \/ fn = "int4" /\ \E v \in [0..3 -> Halves], u \in [0..3 -> RhsComps] : arg = [v |-> v, u |-> u]

\* int2 a(v), b(u); bool eq = a == b;
Int2Apply ==
    /\ pc = "call" /\ fn = "int2"
    /\ res' = [a |-> int2(arg.v), b |-> int2(arg.u), eq |-> int2Eq(int2(arg.v), int2(arg.u))]
    /\ pc' = "done"
    /\ UNCHANGED <<fn, arg>>

Int3Apply ==
    /\ pc = "call" /\ fn = "int3"
    /\ res' = [a |-> int3(arg.v), b |-> int3(arg.u), eq |-> int3Eq(int3(arg.v), int3(arg.u))]
    /\ pc' = "done"
    /\ UNCHANGED <<fn, arg>>

Int4Apply ==
    /\ pc = "call" /\ fn = "int4"
    /\ res' = [a |-> int4(arg.v), b |-> int4(arg.u), eq |-> int4Eq(int4(arg.v), int4(arg.u))]
    /\ pc' = "done"
    /\ UNCHANGED <<fn, arg>>

NextFlint == Int2Apply \/ Int3Apply \/ Int4Apply

SpecFlint == InitFlint /\ [][NextFlint]_vars

FlintDone == pc = "done" /\ fn \in {"int2", "int3", "int4"}

\* the components of an integer vector, in order
IntComps(a) ==
    CASE fn = "int2" -> <<a.i1, a.i2>>
      [] fn = "int3" -> <<a.i1, a.i2, a.i3>>
      [] fn = "int4" -> <<a.i1, a.i2, a.i3, a.i4>>

\* i is the floor of x: i <= x < i + 1
IsFloorOf(i, x) == RLe(F(i), x) /\ RLt(x, F(i + 1))

\* C18: converting a float vector to int2/int3/int4 takes the floor of every
\* component (-0.5 becomes -1, 0.5 becomes 0: never truncation toward zero),
\* and == on integer vectors is true exactly when all components are equal.
C18_FloorConversionAndEquality ==
    FlintDone =>
        /\ \A k \in 1..Len(IntComps(res.a)) :
              /\ IsFloorOf(IntComps(res.a)[k], arg.v[k - 1])
              /\ arg.v[k - 1] = Rat(-1, 2) => IntComps(res.a)[k] = -1
              /\ arg.v[k - 1] = Rat(1, 2) => IntComps(res.a)[k] = 0
        /\ \A k \in 1..Len(IntComps(res.b)) : IsFloorOf(IntComps(res.b)[k], arg.u[k - 1])
        /\ res.eq <=> (IntComps(res.a) = IntComps(res.b))

C18_Witness ==
    /\ FlintDone /\ fn = "int3"
    /\ arg.v = vec3(Rat(-1, 2), Rat(1, 2), Rat(-1, 2))
    /\ res.a = [i1 |-> -1, i2 |-> 0, i3 |-> -1]
    /\ res.eq

C18_WitnessUnequal ==
    /\ FlintDone /\ fn = "int4"
    /\ res.a.i1 = res.b.i1 /\ res.a.i2 = res.b.i2 /\ res.a.i3 = res.b.i3
    /\ res.a.i4 # res.b.i4 /\ ~res.eq

--------------------------------------------------------------------------
(* mat3 and mat4 products *)

NRowsM == 3        \* the rows of the left factor are drawn from the first NRowsM rows

IntRows3 == <<vec3(F(1), F(0), F(0)), vec3(F(0), F(1), F(2)), vec3(F(-1), F(2), F(0)),
              vec3(F(2), F(-1), F(1)), vec3(F(0), F(0), F(1))>>

IntRows4 == <<vec4(F(1), F(0), F(0), F(0)), vec4(F(0), F(1), F(2), F(-1)),
              vec4(F(-1), F(2), F(0), F(1)), vec4(F(2), F(-1), F(1), F(3)),
              vec4(F(0), F(0), F(0), F(1))>>

Lefts3 == {mat3rows(IntRows3[a], IntRows3[b], IntRows3[c]) :
              a \in 1..NRowsM, b \in 1..NRowsM, c \in 1..NRowsM}

Lefts4 == {mat4rows(IntRows4[a], IntRows4[b], IntRows4[c], IntRows4[d]) :
              a \in 1..NRowsM, b \in 1..NRowsM, c \in 1..NRowsM, d \in 1..NRowsM}

Rights3 == {mat3rows(IntRows3[2], IntRows3[3], IntRows3[4]),
            mat3rows(IntRows3[4], IntRows3[1], IntRows3[5]),
            mat3rows(vec3(Rat(1, 2), F(0), F(3)), vec3(F(0), F(0), F(-1)), vec3(F(1), F(1), F(1)))}

Rights4 == {mat4rows(IntRows4[2], IntRows4[3], IntRows4[4], IntRows4[5]),
            mat4rows(IntRows4[4], IntRows4[1], IntRows4[5], IntRows4[3]),
            mat4rows(vec4(Rat(1, 2), F(0), F(3), F(0)), vec4(F(0), F(0), F(-1), F(2)),
                     vec4(F(1), F(1), F(1), F(1)), vec4(F(0), F(-2), F(0), F(1)))}

Vecs3 == {vec3(F(1), F(2), F(-1)), vec3(F(0), F(1), F(0)), vec3(Rat(-1, 2), F(0), F(3))}

Vecs4 == {vec4(F(1), F(2), F(-1), F(1)), vec4(F(0), F(1), F(0), F(0)),
          vec4(Rat(-1, 2), F(0), F(3), F(2))}

\* the arguments: the matrices A and B and the vector v
InitMatMul ==
    /\ pc = "call"
    /\ res = NoRes
    /\ \/ fn = "mat3" /\ \E A \in Lefts3, B \in Rights3, v \in Vecs3 : arg = [A |-> A, B |-> B, v |-> v]
       \/ fn = "mat4" /\ \E A \in Lefts4, B \in Rights4, v \in Vecs4 : arg = [A |-> A, B |-> B, v |-> v]

\* mat3 I(1); A*B, B*A, (A*B)*v, A*(B*v), B*v, I*A, A*I, I*v
Mat3Products ==
    /\ pc = "call" /\ fn = "mat3"
    /\ res' = [AB  |-> Mat3Mul(arg.A, arg.B),
               BA  |-> Mat3Mul(arg.B, arg.A),
               ABv |-> Mat3MulVec(Mat3Mul(arg.A, arg.B), arg.v),
               AxBv |-> Mat3MulVec(arg.A, Mat3MulVec(arg.B, arg.v)),
               Bv  |-> Mat3MulVec(arg.B, arg.v),
               IA  |-> Mat3Mul(mat3diag(F(1)), arg.A),
               AI  |-> Mat3Mul(arg.A, mat3diag(F(1))),
               Iv  |-> Mat3MulVec(mat3diag(F(1)), arg.v)]
    /\ pc' = "done"
    /\ UNCHANGED <<fn, arg>>

\* the same with mat4, vec4
Mat4Products ==
    /\ pc = "call" /\ fn = "mat4"
    /\ res' = [AB  |-> Mat4Mul(arg.A, arg.B),
               BA  |-> Mat4Mul(arg.B, arg.A),
               ABv |-> Mat4MulVec(Mat4Mul(arg.A, arg.B), arg.v),
               AxBv |-> Mat4MulVec(arg.A, Mat4MulVec(arg.B, arg.v)),
               Bv  |-> Mat4MulVec(arg.B, arg.v),
               IA  |-> Mat4Mul(mat4diag(F(1)), arg.A),
               AI  |-> Mat4Mul(arg.A, mat4diag(F(1))),
               Iv  |-> Mat4MulVec(mat4diag(F(1)), arg.v)]
    /\ pc' = "done"
    /\ UNCHANGED <<fn, arg>>

NextMatMul == Mat3Products \/ Mat4Products

SpecMatMul == InitMatMul /\ [][NextMatMul]_vars

MatMulDone == pc = "done" /\ fn \in {"mat3", "mat4"}

MatDim == IF fn = "mat3" THEN 3 ELSE 4

\* the sum of f[0], ..., f[n-1]
RECURSIVE RSum(_, _)
RSum(f, n) == IF n = 0 THEN F(0) ELSE RAdd(RSum(f, n - 1), f[n - 1])

\* C19: for mat3 and mat4, (M*v)[i] = dot(row i of M, v) and
\* (A*B)[i][j] = sum over k of A[i][k]*B[k][j], so (A*B)*v = A*(B*v) for all
\* A, B, v; a matrix constructed from the scalar 1 is a two-sided identity
\* for both products.
C19_ProductsConsistent ==
    MatMulDone =>
        /\ \A i \in 0..MatDim-1 :
              res.Bv[i] = RSum([k \in 0..MatDim-1 |-> RMul(arg.B[i][k], arg.v[k])], MatDim)
        /\ \A i \in 0..MatDim-1, j \in 0..MatDim-1 :
              /\ res.AB[i][j] = RSum([k \in 0..MatDim-1 |-> RMul(arg.A[i][k], arg.B[k][j])], MatDim)
              /\ res.BA[i][j] = RSum([k \in 0..MatDim-1 |-> RMul(arg.B[i][k], arg.A[k][j])], MatDim)
        /\ res.ABv = res.AxBv
        /\ res.IA = arg.A /\ res.AI = arg.A /\ res.Iv = arg.v

\* a pair that does not commute, so that the order of the factors matters
C19_Witness ==
    /\ MatMulDone /\ fn = "mat4"
    /\ res.AB # res.BA
    /\ res.ABv = res.AxBv
    /\ res.ABv # Mat4MulVec(res.BA, arg.v)
    /\ res.IA = arg.A /\ res.AI = arg.A /\ arg.A # mat4diag(F(1))

C19_WitnessMat3 ==
    /\ MatMulDone /\ fn = "mat3"
    /\ res.AB # res.BA /\ res.ABv = res.AxBv /\ res.ABv # Mat3MulVec(res.BA, arg.v)

--------------------------------------------------------------------------
(* Quaternion(vec3 axis, float radAng), GetMatrix *)

\* an angle whose half has the rational cosine hc and sine hs:
\* cos = hc^2 - hs^2, sin = 2*hc*hs
AngleOfHalf(unit, hc, hs) ==
    [unit |-> unit, c |-> RSub(RMul(hc, hc), RMul(hs, hs)), s |-> RMul(F(2), RMul(hc, hs)),
     hc |-> hc, hs |-> hs]

\* radAng/2
Half(radAng) == Angle(radAng.unit, radAng.hc, radAng.hs)

\* Quaternion(vec3 axis, float radAng)
QuaternionOfAxisAngle(axis, radAng) ==
    LET c == Cos(Half(radAng))
        s == Sin(Half(radAng))
        a == normalize3(axis)
    IN  Quaternion(RMul(s, a[0]), RMul(s, a[1]), RMul(s, a[2]), c)

\* Quaternion::GetMatrix()
GetMatrix(q) == mat4of3(Get3x3(q))

MaxAxisLen == 2    \* the axis is k times a coordinate axis, k in 1..MaxAxisLen

Axes == {[i \in 0..2 |-> IF i = a THEN F(k) ELSE F(0)] : a \in 0..2, k \in 1..MaxAxisLen}

RadAngs == {AngleOfHalf("rad", p[1], p[2]) : p \in CirclePoints}

\* the arguments: the axis and the angle in radians
InitAxisAngle ==
    /\ pc = "call"
    /\ fn = "GetMatrix"
    /\ \E axis \in Axes, radAng \in RadAngs : arg = [axis |-> axis, radAng |-> radAng]
    /\ res = NoRes

\* Quaternion q(axis, radAng); mat4 m = q.GetMatrix();
AxisAngleGetMatrix ==
    /\ pc = "call" /\ fn = "GetMatrix"
    /\ res' = [q |-> QuaternionOfAxisAngle(arg.axis, arg.radAng),
               m |-> GetMatrix(QuaternionOfAxisAngle(arg.axis, arg.radAng))]
    /\ pc' = "done"
    /\ UNCHANGED <<fn, arg>>

NextAxisAngle == AxisAngleGetMatrix

SpecAxisAngle == InitAxisAngle /\ [][NextAxisAngle]_vars

AxisAngleDone == pc = "done" /\ fn = "GetMatrix"

\* the same angle expressed in degrees, and its opposite
Degrees(radAng) == [radAng EXCEPT !.unit = "deg"]
Opposite(angle) == [angle EXCEPT !.s = RNeg(angle.s)]

\* the rotation builder for the coordinate axis the argument lies on
RotateAbout(axis, theta) ==
    IF ~RIsZero(axis[0]) THEN RotateX(theta)
    ELSE IF ~RIsZero(axis[1]) THEN RotateY(theta)
    ELSE RotateZ(theta)

\* C20: for the unit quaternion built from axis (0,0,1) and angle a
\* (radians), GetMatrix() equals RotateZ of the same angle expressed in
\* degrees, likewise axis X with RotateX and axis Y with RotateY: both rotate
\* a vector in the same direction.
C20_GetMatrixIsRotateAboutAxis ==
    AxisAngleDone =>
        /\ QNorm(res.q) = F(1)
        /\ res.m = RotateAbout(arg.axis, Degrees(arg.radAng))

\* what the code does instead: GetMatrix() is the rotation about the same
\* axis by the opposite angle
AxisAngleMatrixIsOppositeRotation ==
    AxisAngleDone =>
        /\ QNorm(res.q) = F(1)
        /\ res.m = RotateAbout(arg.axis, Opposite(Degrees(arg.radAng)))

--------------------------------------------------------------------------
(* Slerp: the three branches *)

\* (-q.y, q.x, -q.w, q.z)
QupOf(q) == Quaternion(RNeg(q.y), q.x, RNeg(q.w), q.z)

\* quaternions of any norm with small components
QsSmall == {Quaternion(F(x), F(y), F(z), F(w)) : x \in -1..1, y \in 0..2, z \in -1..1, w \in {-2, 0, 1}}

--------------------------------------------------------------------------
(* Quaternion(mat3): the branch taken *)

MaxD == 3          \* the diagonal entries are drawn from -MaxD..MaxD

\* the value under the square root of caseMacro for the axis I
UnderRoot(mat, I) ==
    RMul(Rat(1, 4),
         RAdd(RSub(RSub(mat[I][I], mat[(I + 1) % 3][(I + 1) % 3]),
                   mat[(I + 2) % 3][(I + 2) % 3]), F(1)))

Trace3(mat) == RAdd(RAdd(mat[X][X], mat[Y][Y]), mat[Z][Z])

\* the square root the constructor takes is rational and not zero: that of
\* .25f*(tr+1) when tr >= 0, that of the largest caseMacro candidate otherwise
RootIsExact(mat) ==
    IF RLe(F(0), Trace3(mat))
    THEN IsSquareRat(RMul(Rat(1, 4), RAdd(Trace3(mat), F(1))))
    ELSE \E I \in 0..2 :
            /\ \A K \in 0..2 : RLe(UnderRoot(mat, K), UnderRoot(mat, I))
            /\ IsSquareRat(UnderRoot(mat, I)) /\ ~RIsZero(UnderRoot(mat, I))

\* the entries off the diagonal
OffDiagonals ==
    {mat3rows(vec3(F(0), F(0), F(0)), vec3(F(0), F(0), F(0)), vec3(F(0), F(0), F(0))),
     mat3rows(vec3(F(0), F(1), F(-2)), vec3(Rat(1, 2), F(0), F(3)), vec3(F(2), F(-1), F(0)))}

WithDiagonal(m, a, b, c) == [m EXCEPT ![0][0] = F(a), ![1][1] = F(b), ![2][2] = F(c)]

\* the argument: a matrix with any diagonal
InitQuatSel ==
    /\ pc = "call"
    /\ fn = "QuaternionSelect"
    /\ \E o \in OffDiagonals, a \in -MaxD..MaxD, b \in -MaxD..MaxD, c \in -MaxD..MaxD :
           /\ RootIsExact(WithDiagonal(o, a, b, c))
           /\ arg = [mat |-> WithDiagonal(o, a, b, c)]
    /\ res = NoRes

\* Quaternion q(mat), with the branch it took: the trace branch, or the case
\* of the switch
QuatSelect ==
    /\ pc = "call" /\ fn = "QuaternionSelect"
    /\ res' = [q     |-> QuaternionOfMat3(arg.mat),
               trace |-> RLe(F(0), RAdd(RAdd(arg.mat[X][X], arg.mat[Y][Y]), arg.mat[Z][Z])),
               axis  |-> SwitchAxis(arg.mat)]
    /\ pc' = "done"
    /\ UNCHANGED <<fn, arg>>

NextQuatSel == QuatSelect

SpecQuatSel == InitQuatSel /\ [][NextQuatSel]_vars

QuatSelDone == pc = "done" /\ fn = "QuaternionSelect"

\* the axis given by the rule: X when m[X][X] >= m[Y][Y] and m[X][X] >=
\* m[Z][Z], else Y when m[Y][Y] >= m[Z][Z], else Z
RuleAxis(mat) ==
    IF RLe(mat[Y][Y], mat[X][X]) /\ RLe(mat[Z][Z], mat[X][X]) THEN X
    ELSE IF RLe(mat[Z][Z], mat[Y][Y]) THEN Y
    ELSE Z

QComp(q, I) == CASE I = X -> q.x [] I = Y -> q.y [] I = Z -> q.z

\* C22: Quaternion(mat3) takes the trace branch exactly when trace >= 0;
\* otherwise, for every combination of diagonal values, ties included, the
\* axis selected is the one given by the rule, its diagonal term is a maximum
\* of the three, and the value under the square root is the largest of the
\* three candidates.
C22_BranchAndAxisSelection ==
    QuatSelDone =>
        /\ res.trace <=> ~RLt(Trace3(arg.mat), F(0))
        /\ res.trace => res.q.w = RSqrt(RMul(Rat(1, 4), RAdd(Trace3(arg.mat), F(1))))
        /\ ~res.trace =>
              /\ res.axis = RuleAxis(arg.mat)
              /\ \A K \in 0..2 : RLe(arg.mat[K][K], arg.mat[res.axis][res.axis])
              /\ \A K \in 0..2 : RLe(UnderRoot(arg.mat, K), UnderRoot(arg.mat, res.axis))
              /\ QComp(res.q, res.axis) = RSqrt(UnderRoot(arg.mat, res.axis))

\* a tie between X and Y above Z, with negative trace: X is selected
C22_Witness ==
    /\ QuatSelDone
    /\ ~res.trace
    /\ arg.mat[X][X] = arg.mat[Y][Y] /\ RLt(arg.mat[Z][Z], arg.mat[X][X])
    /\ res.axis = X
    /\ res.q.x = RSqrt(UnderRoot(arg.mat, X))

C22_WitnessTripleTie ==
    /\ QuatSelDone /\ ~res.trace
    /\ arg.mat[X][X] = arg.mat[Y][Y] /\ arg.mat[Z][Z] = arg.mat[X][X] /\ res.axis = X

C22_WitnessZ ==
    /\ QuatSelDone /\ ~res.trace
    /\ RLt(arg.mat[Y][Y], arg.mat[X][X]) /\ RLt(arg.mat[X][X], arg.mat[Z][Z]) /\ res.axis = Z

C22_WitnessYZTie ==
    /\ QuatSelDone /\ ~res.trace
    /\ RLt(arg.mat[X][X], arg.mat[Y][Y]) /\ arg.mat[Y][Y] = arg.mat[Z][Z] /\ res.axis = Y

C22_WitnessTraceZero ==
    QuatSelDone /\ res.trace /\ Trace3(arg.mat) = F(0)

--------------------------------------------------------------------------
(* Quaternion(mat4), GetMatrix *)

\* column j of the upper-left 3x3 block of m
Column(m, j) == vec3(m[0][j], m[1][j], m[2][j])

\* the matrix t of Quaternion(mat4) taken from the block without transposing
NormalizedTNoTranspose(m) ==
    LET xlen == length3(Column(m, 0))
        ylen == length3(Column(m, 1))
        zlen == length3(Column(m, 2))
    IN  [i \in 0..2 |-> vec3(RDiv(m[i][0], xlen), RDiv(m[i][1], ylen), RDiv(m[i][2], zlen))]

\* the matrix t of Quaternion(mat4 m) when it is handed to Quaternion(mat3):
\* the rows of t are the columns of m, then t[i][0] /= xlen, t[i][1] /= ylen,
\* t[i][2] /= zlen
NormalizedT(m) ==
    LET t    == mat3rows(Column(m, 0), Column(m, 1), Column(m, 2))
        xlen == length3(Column(m, 0))
        ylen == length3(Column(m, 1))
        zlen == length3(Column(m, 2))
    IN  [i \in 0..2 |-> vec3(RDiv(t[i][0], xlen), RDiv(t[i][1], ylen), RDiv(t[i][2], zlen))]

\* Quaternion::Quaternion(mat4 m)
QuaternionOfMat4(m) == QuaternionOfMat3(NormalizedT(m))

\* the scales of the three columns: uniform ones, and some that are not
ColumnScales ==
    {vec3(F(1), F(1), F(1)), vec3(F(2), F(2), F(2)), vec3(F(3), F(3), F(3)),
     vec3(Rat(1, 2), Rat(1, 2), Rat(1, 2)),
     vec3(F(1), F(2), F(1)), vec3(F(2), F(1), F(1)), vec3(F(1), F(1), F(2)),
     vec3(F(2), F(1), F(2)), vec3(F(1), F(2), F(3))}

IsUniform(s) == s[0] = s[1] /\ s[1] = s[2]

\* the last column (translation) and the last row
LastColumns == {vec3(F(0), F(0), F(0)), vec3(F(1), F(-2), F(3))}
LastRows == {vec4(F(0), F(0), F(0), F(1)), vec4(F(1), F(2), F(-1), F(2))}

\* the mat4 whose block is R with column j scaled by s[j]
ScaledMat4(R, s, lastColumn, lastRow) ==
    [i \in 0..3 |-> [j \in 0..3 |->
        IF i = 3 THEN lastRow[j]
        ELSE IF j = 3 THEN lastColumn[i]
        ELSE RMul(R[i][j], s[j])]]

\* the argument: a rotation with scaled columns, any translation and last row
InitQuat4 ==
    /\ pc = "call"
    /\ fn = "Quaternion4"
    /\ \E R \in Rotations, s \in ColumnScales, c \in LastColumns, r \in LastRows :
           /\ IsRotation(R)
           /\ RootIsExact(NormalizedT(ScaledMat4(R, s, c, r)))
           /\ arg = [R |-> R, s |-> s, m |-> ScaledMat4(R, s, c, r)]
    /\ res = NoRes

\* Quaternion q(m); mat4 back = q.GetMatrix();
Quat4RoundTrip ==
    /\ pc = "call" /\ fn = "Quaternion4"
    /\ res' = [t    |-> NormalizedT(arg.m),
               q    |-> QuaternionOfMat4(arg.m),
               back |-> GetMatrix(QuaternionOfMat4(arg.m))]
    /\ pc' = "done"
    /\ UNCHANGED <<fn, arg>>

NextQuat4 == Quat4RoundTrip

SpecQuat4 == InitQuat4 /\ [][NextQuat4]_vars

Quat4Done == pc = "done" /\ fn = "Quaternion4"

\* for a rotation with uniformly scaled columns the quaternion is that of
\* the matrix with block R, whatever the translation and the last row
UniformScaleIgnored ==
    (Quat4Done /\ IsUniform(arg.s)) => res.q = QuaternionOfMat4(mat4of3(arg.R))

\* C23 (as stated): Quaternion(mat4 m) divides each column of m's upper-left
\* 3x3 by that column's own length before extraction (t holds the columns as
\* its rows), so that for every pure rotation R and uniform scale k > 0 the
\* quaternion of the matrix with block k*R is that of the matrix with block R.
C23_ColumnsNormalizedByOwnLength ==
    /\ Quat4Done =>
          \A i \in 0..2, j \in 0..2 :
              res.t[j][i] = RDiv(arg.m[i][j], length3(Column(arg.m, j)))
    /\ UniformScaleIgnored

\* C23 (amended): the entry t[i][j] = m[j][i] is divided by the length of
\* column j of m, that is, row j of the block is divided by the length of
\* column j; the three lengths are equal for k*R, so for every pure rotation
\* R and uniform k > 0 the quaternion of the matrix with block k*R is that of
\* the matrix with block R (translation and last row are ignored).
C23_RowsDividedByColumnLengths ==
    /\ Quat4Done =>
          \A i \in 0..2, j \in 0..2 :
              res.t[i][j] = RDiv(arg.m[j][i], length3(Column(arg.m, j)))
    /\ UniformScaleIgnored

\* a rotation scaled by 2 with a translation: the quaternion is a unit
\* quaternion, the one of the unscaled rotation
C23_Witness ==
    /\ Quat4Done
    /\ arg.s = vec3(F(2), F(2), F(2))
    /\ arg.m[0][3] = F(1) /\ arg.m[3][0] = F(1)
    /\ arg.R # Transpose3(arg.R)
    /\ res.q = QuaternionOfMat4(mat4of3(arg.R))
    /\ QNorm(res.q) = F(1)

\* columns of different lengths: t is not the block with unit columns
C23_WitnessNonUniform ==
    /\ Quat4Done
    /\ ~IsUniform(arg.s)
    /\ \E i \in 0..2, j \in 0..2 :
          res.t[j][i] # RDiv(arg.m[i][j], length3(Column(arg.m, j)))

\* C25: for every pure-rotation 3x3 matrix R, Quaternion(mat4(R)).GetMatrix()
\* equals mat4(R) element by element: upper-left block R, last row and
\* column (0,0,0,1).
C25_Mat4RoundTrip ==
    (Quat4Done /\ arg.m = mat4of3(arg.R)) =>
        \A i \in 0..3, j \in 0..3 : res.back[i][j] = arg.m[i][j]

C25_Witness ==
    /\ Quat4Done
    /\ arg.m = mat4of3(arg.R)
    /\ arg.R # Transpose3(arg.R)
    /\ res.back = mat4of3(arg.R)
    /\ res.back[3] = vec4(F(0), F(0), F(0), F(1))

--------------------------------------------------------------------------
(* TransposeInverseMatrix3x3 *)

\* TransposeInverseMatrix3x3 with the sign of r[1][0] dropped
TransposeInverseMatrix3x3NoSign(m) ==
    LET det    == RAdd(RSub(RMul(m[0][0], Det2(m[1][1], m[2][2], m[2][1], m[1][2])),
                            RMul(m[0][1], Det2(m[1][0], m[2][2], m[1][2], m[2][0]))),
                       RMul(m[0][2], Det2(m[1][0], m[2][1], m[1][1], m[2][0])))
        invdet == RDiv(F(1), det)
    IN  mat3rows(
          vec3(RMul(Det2(m[1][1], m[2][2], m[2][1], m[1][2]), invdet),
               RMul(RNeg(Det2(m[1][0], m[2][2], m[1][2], m[2][0])), invdet),
               RMul(Det2(m[1][0], m[2][1], m[2][0], m[1][1]), invdet)),
          vec3(RMul(Det2(m[0][1], m[2][2], m[0][2], m[2][1]), invdet),
               RMul(Det2(m[0][0], m[2][2], m[0][2], m[2][0]), invdet),
               RMul(RNeg(Det2(m[0][0], m[2][1], m[2][0], m[0][1])), invdet)),
          vec3(RMul(Det2(m[0][1], m[1][2], m[0][2], m[1][1]), invdet),
               RMul(RNeg(Det2(m[0][0], m[1][2], m[1][0], m[0][2])), invdet),
               RMul(Det2(m[0][0], m[1][1], m[1][0], m[0][1]), invdet)))

\* TransposeInverseMatrix3x3(mat3 m), det # 0
TransposeInverseMatrix3x3(m) ==
    LET det    == RAdd(RSub(RMul(m[0][0], Det2(m[1][1], m[2][2], m[2][1], m[1][2])),
                            RMul(m[0][1], Det2(m[1][0], m[2][2], m[1][2], m[2][0]))),
                       RMul(m[0][2], Det2(m[1][0], m[2][1], m[1][1], m[2][0])))
        invdet == RDiv(F(1), det)
    IN  mat3rows(
          vec3(RMul(Det2(m[1][1], m[2][2], m[2][1], m[1][2]), invdet),
               RMul(RNeg(Det2(m[1][0], m[2][2], m[1][2], m[2][0])), invdet),
               RMul(Det2(m[1][0], m[2][1], m[2][0], m[1][1]), invdet)),
          vec3(RMul(RNeg(Det2(m[0][1], m[2][2], m[0][2], m[2][1])), invdet),
               RMul(Det2(m[0][0], m[2][2], m[0][2], m[2][0]), invdet),
               RMul(RNeg(Det2(m[0][0], m[2][1], m[2][0], m[0][1])), invdet)),
          vec3(RMul(Det2(m[0][1], m[1][2], m[0][2], m[1][1]), invdet),
               RMul(RNeg(Det2(m[0][0], m[1][2], m[1][0], m[0][2])), invdet),
               RMul(Det2(m[0][0], m[1][1], m[1][0], m[0][1]), invdet)))

\* the argument: any matrix with rows from the pool whose determinant is not
\* exactly 0 (1.f/det is then infinite and no entry is a number)
InitTransInv3 ==
    /\ pc = "call"
    /\ fn = "TransposeInverseMatrix3x3"
    /\ \E r0 \in Pool3, r1 \in Pool3, r2 \in Pool3 :
           /\ ~RIsZero(DetOf3(mat3rows(r0, r1, r2)))
           /\ arg = [m |-> mat3rows(r0, r1, r2)]
    /\ res = NoRes

\* mat3 r = TransposeInverseMatrix3x3(m); mat3 inv; bool ok = InvertMatrix3x3(m, inv);
TransInv3Apply ==
    /\ pc = "call" /\ fn = "TransposeInverseMatrix3x3"
    /\ res' = [r |-> TransposeInverseMatrix3x3(arg.m),
               ok |-> InvertMatrix3x3(arg.m).ok,
               inv |-> InvertMatrix3x3(arg.m).out]
    /\ pc' = "done"
    /\ UNCHANGED <<fn, arg>>

NextTransInv3 == TransInv3Apply

SpecTransInv3 == InitTransInv3 /\ [][NextTransInv3]_vars

TransInv3Done == pc = "done" /\ fn = "TransposeInverseMatrix3x3"

\* C24: for every 3x3 matrix m with determinant outside the epsilon band,
\* TransposeInverseMatrix3x3(m) = Transpose(Inverse(m)) element by element;
\* its entries are the cofactors of m divided by det and
\* det*TransposeInverseMatrix3x3(m) = Transpose(Adjoint3x3(m)); unlike
\* InvertMatrix3x3 it makes no singularity test (inside the band it still
\* divides the cofactors by det).
C24_TransposeInverse ==
    TransInv3Done =>
        /\ ~InBand(DetOf3(arg.m)) =>
              /\ res.ok
              /\ \A i \in 0..2, j \in 0..2 : res.r[i][j] = Transpose3(Inverse3(arg.m))[i][j]
              /\ Mat3Mul(Transpose3(res.r), arg.m) = mat3diag(F(1))
        /\ \A i \in 0..2, j \in 0..2 :
              res.r[i][j] = RDiv(Minor3(arg.m, i, j), DetOf3(arg.m))
        /\ Scale3(DetOf3(arg.m), res.r) = Transpose3(Adjoint3x3(arg.m))
        /\ InBand(DetOf3(arg.m)) => ~res.ok

\* an asymmetric matrix outside the band
C24_Witness ==
    /\ TransInv3Done
    /\ ~InBand(DetOf3(arg.m))
    /\ arg.m # Transpose3(arg.m)
    /\ res.r # Inverse3(arg.m)
    /\ res.r = Transpose3(Inverse3(arg.m))

\* inside the band: InvertMatrix3x3 refuses, TransposeInverseMatrix3x3 divides
C24_WitnessInBand ==
    /\ TransInv3Done
    /\ InBand(DetOf3(arg.m)) /\ ~res.ok
    /\ Scale3(DetOf3(arg.m), res.r) = Transpose3(Adjoint3x3(arg.m))

--------------------------------------------------------------------------
(* Siege: class Character *)
(* In this family fn = "Character", arg is the last call made on the       *)
(* object (op, its argument and the frame shown before it) and res is the  *)
(* object after that call together with the value glfwGetTime() returns.   *)

\* int2 {a, b}
int2Pair(a, b) == [i1 |-> a, i2 |-> b]

\* int2 archerAnimations[], barbarianAnimations[]
archerAnimations    == [k \in 0..3 |-> int2Pair(5 * k, 5 * k + 4)]
barbarianAnimations == [k \in 0..4 |-> int2Pair(5 * k, 5 * k + 4)]

\* struct SpriteInfo and its four instances
SpriteInfo(rows, cols, nFrames, speed, animations, nAnimations, attack, moving, death, hurt, health, damage) ==
    [rows |-> rows, cols |-> cols, nFrames |-> nFrames, speed |-> speed,
     animations |-> animations, nAnimations |-> nAnimations, attack |-> attack,
     moving |-> moving, death |-> death, hurt |-> hurt, health |-> health,
     damage |-> damage]
archerInfo         == SpriteInfo(4, 5, 4 * 5, Rat(1, 1000), archerAnimations, 4, 0, 1, 3, 2, 100, 20)
barbarianInfo      == SpriteInfo(5, 5, 5 * 5, Rat(1, 1000), barbarianAnimations, 5, 3, 1, 0, 2, 100, 25)
EnemyBarbarianInfo == SpriteInfo(5, 5, 5 * 5, Rat(1, 1000), barbarianAnimations, 5, 3, 1, 0, 4, 100, 25)
wizardInfo         == SpriteInfo(4, 5, 4 * 5, Rat(1, 1000), archerAnimations, 4, 0, 1, 3, 2, 100, 30)

\* float frameDuration = 0.1f; the clock counts in units of it
frameDuration == 1

\* Character(Sprite s, SpriteInfo info), with the member initializers;
\* sprite: its position, the number of Release() calls made on it and the
\* (row, col) last given to SetUVforFrame
Character(s, info, now) ==
    [sprite |-> s, IsMoving |-> TRUE, health |-> info.health, damage |-> info.damage,
     speed |-> info.speed, IsDead |-> FALSE, CurrentAnimation |-> 1,
     nRows |-> info.rows, nCols |-> info.cols, animations |-> info.animations,
     nAnimations |-> info.nAnimations, attack |-> info.attack, moving |-> info.moving,
     death |-> info.death, hurt |-> info.hurt, startFrame |-> 0, frame |-> 0,
     nFrames |-> info.nFrames, change |-> now + frameDuration]

\* void SetFrame(int f)
SetFrame(c, f) ==
    [c EXCEPT !.frame = f, !.sprite.uv = <<f \div c.nCols, f % c.nCols>>]

\* void SetAnimation(int a), 0 <= a
SetAnimation(c, a) ==
    IF a < c.nAnimations
    THEN LET i == c.animations[a]
         IN  SetFrame([c EXCEPT !.nFrames = i.i2 - i.i1 + 1,
                                !.CurrentAnimation = a,
                                !.startFrame = i.i1], i.i1)
    ELSE c

\* Animate with the wrap test one frame late
AnimateWrapsLate(c, now) ==
    IF now > c.change
    THEN SetFrame([c EXCEPT !.change = now + frameDuration],
                  IF c.frame = c.startFrame + c.nFrames THEN c.startFrame ELSE c.frame + 1)
    ELSE c

\* void Animate(), now = (float)glfwGetTime()
Animate(c, now) ==
    IF now > c.change
    THEN SetFrame([c EXCEPT !.change = now + frameDuration],
                  IF c.frame = c.startFrame + c.nFrames - 1 THEN c.startFrame ELSE c.frame + 1)
    ELSE c

\* void Attack()
Attack(c) == SetAnimation([c EXCEPT !.IsMoving = FALSE], c.attack)

\* void Moving()
Moving(c) == SetAnimation([c EXCEPT !.IsMoving = TRUE], c.moving)

\* void Death()
Death(c) ==
    IF ~c.IsDead
    THEN [SetAnimation(c, c.death) EXCEPT !.sprite.released = @ + 1, !.IsDead = TRUE]
    ELSE c

\* void Hurting(int dmg)
Hurting(c, dmg) ==
    LET h == [c EXCEPT !.health = @ - dmg, !.IsMoving = FALSE]
    IN  IF h.health <= 0 THEN Death(h) ELSE SetAnimation(h, h.hurt)

\* void UpdatePosition()
UpdatePosition(c) ==
    IF c.IsMoving
    THEN [c EXCEPT !.sprite.position = vec2(RAdd(c.sprite.position[0], c.speed),
                                            c.sprite.position[1])]
    ELSE c

MaxTime  == 10     \* glfwGetTime() stays within MaxTime frame durations
MaxMoves == 1      \* a sprite moves at most MaxMoves times
MaxDebt  == 50     \* health stays above or at -MaxDebt

\* the SpriteInfo instances (wizardInfo is archerInfo with another damage),
\* the x position DeployArcher .. DeployWizard give a character, the
\* arguments of SetAnimation and Hurting
Infos   == {archerInfo, barbarianInfo, EnemyBarbarianInfo}
StartXs == {Rat(-85, 100)}
Anims   == 0..5
Dmgs    == {50}

\* the number of times a sprite at x has moved
Moved(x, k) == \E x0 \in StartXs : x = RAdd(x0, RMul(F(k), Rat(1, 1000)))

\* the object after construction, at time 0
InitCharacter ==
    /\ pc = "run"
    /\ fn = "Character"
    /\ \E info \in Infos, x \in StartXs :
           /\ arg = [op |-> "Character", a |-> 0, frame |-> 0]
           /\ res = [this |-> Character([position |-> vec2(x, Rat(-35, 100)),
                                         released |-> 0, uv |-> <<0, 0>>], info, 0),
                     now |-> 0]

Running == pc = "run" /\ fn = "Character"

\* time passes
Tick ==
    /\ Running
    /\ res.now < MaxTime
    /\ res' = [res EXCEPT !.now = @ + 1]
    /\ arg' = [op |-> "Tick", a |-> 0, frame |-> res.this.frame]
    /\ UNCHANGED <<pc, fn>>

CallSetAnimation ==
    /\ Running
    /\ \E a \in Anims :
           /\ res' = [res EXCEPT !.this = SetAnimation(@, a)]
           /\ arg' = [op |-> "SetAnimation", a |-> a, frame |-> res.this.frame]
    /\ UNCHANGED <<pc, fn>>

CallAnimate ==
    /\ Running
    /\ res' = [res EXCEPT !.this = Animate(@, res.now)]
    /\ arg' = [op |-> "Animate", a |-> 0, frame |-> res.this.frame]
    /\ UNCHANGED <<pc, fn>>

CallAttack ==
    /\ Running
    /\ res' = [res EXCEPT !.this = Attack(@)]
    /\ arg' = [op |-> "Attack", a |-> 0, frame |-> res.this.frame]
    /\ UNCHANGED <<pc, fn>>

CallMoving ==
    /\ Running
    /\ res' = [res EXCEPT !.this = Moving(@)]
    /\ arg' = [op |-> "Moving", a |-> 0, frame |-> res.this.frame]
    /\ UNCHANGED <<pc, fn>>

CallHurting ==
    /\ Running
    /\ \E dmg \in Dmgs :
           /\ res.this.health - dmg >= -MaxDebt
           /\ res' = [res EXCEPT !.this = Hurting(@, dmg)]
           /\ arg' = [op |-> "Hurting", a |-> dmg, frame |-> res.this.frame]
    /\ UNCHANGED <<pc, fn>>

\* Keyboard: key 'C' calls Death() on each archer
CallDeath ==
    /\ Running
    /\ res' = [res EXCEPT !.this = Death(@)]
    /\ arg' = [op |-> "Death", a |-> 0, frame |-> res.this.frame]
    /\ UNCHANGED <<pc, fn>>

\* Display: UpdatePosition() on each deployed character
CallUpdatePosition ==
    /\ Running
    /\ \E k \in 0..(MaxMoves - 1) : Moved(res.this.sprite.position[0], k)
    /\ res' = [res EXCEPT !.this = UpdatePosition(@)]
    /\ arg' = [op |-> "UpdatePosition", a |-> 0, frame |-> res.this.frame]
    /\ UNCHANGED <<pc, fn>>

NextCharacter ==
    \/ Tick
    \/ CallSetAnimation
    \/ CallAnimate
    \/ CallAttack
    \/ CallMoving
    \/ CallHurting
    \/ CallDeath
    \/ CallUpdatePosition

SpecCharacter == InitCharacter /\ [][NextCharacter]_vars

CharacterDone(op) == Running /\ arg.op = op

\* the last frame of the current range
LastFrame(c) == c.startFrame + c.nFrames - 1

\* C26: for a Character built with the main constructor from a SpriteInfo,
\* after any sequence of SetAnimation, Animate, Attack, Moving and Hurting
\* calls startFrame <= frame <= startFrame + nFrames - 1; after
\* SetAnimation(a) with 0 <= a < nAnimations the range is exactly
\* animations[a].i1 .. animations[a].i2; Animate steps through the range
\* cyclically, the last frame wrapping to the first; SetAnimation(a) with
\* a >= nAnimations changes nothing.
C26_FrameStaysInAnimation ==
    /\ [](Running =>
            /\ res.this.nCols > 0
            /\ res.this.startFrame <= res.this.frame
            /\ res.this.frame <= LastFrame(res.this)
            /\ (CharacterDone("SetAnimation") /\ arg.a < res.this.nAnimations) =>
                  /\ res.this.startFrame = res.this.animations[arg.a].i1
                  /\ LastFrame(res.this) = res.this.animations[arg.a].i2
                  /\ res.this.CurrentAnimation = arg.a)
    /\ [][Running =>
            /\ (arg'.op = "Animate" /\ res.now > res.this.change) =>
                  /\ res'.this.frame = IF res.this.frame = LastFrame(res.this)
                                       THEN res.this.startFrame
                                       ELSE res.this.frame + 1
                  /\ res'.this.startFrame = res.this.startFrame
                  /\ res'.this.nFrames = res.this.nFrames
            /\ (arg'.op = "Animate" /\ res.now <= res.this.change) =>
                  res'.this = res.this
            /\ (arg'.op = "SetAnimation" /\ arg'.a >= res.this.nAnimations) =>
                  res'.this = res.this]_vars

\* Animate has just wrapped the last frame of animation 2 to its first
C26_Witness ==
    /\ CharacterDone("Animate")
    /\ res.this.CurrentAnimation = 2
    /\ res.this.startFrame = 10 /\ res.this.nFrames = 5
    /\ arg.frame = 14
    /\ res.this.frame = 10

\* SetAnimation(4) on an archer, which has 4 animations, left frame 7 shown
C26_WitnessOutOfRange ==
    /\ CharacterDone("SetAnimation")
    /\ arg.a = 4 /\ res.this.nAnimations = 4
    /\ arg.frame = 7 /\ res.this.frame = 7

\* a hurt character shows the first frame of its hurt animation
C26_WitnessHurt ==
    /\ CharacterDone("Hurting")
    /\ ~res.this.IsDead
    /\ res.this.CurrentAnimation = 4
    /\ res.this.frame = 20

\* C27: once a Character has died it stays dead; in every later sequence of
\* UpdatePosition, Animate, Hurting and Death calls its sprite is released
\* at most once, UpdatePosition no longer changes its position and Hurting
\* no longer switches it to the hurt animation.
C27_DeadStaysDead ==
    [][(Running /\ res.this.IsDead) =>
          /\ res'.this.IsDead
          /\ res.this.sprite.released = 1
          /\ res'.this.sprite.released = 1
          /\ arg'.op = "UpdatePosition" =>
                res'.this.sprite.position = res.this.sprite.position
          /\ arg'.op = "Hurting" =>
                /\ res'.this.CurrentAnimation = res.this.CurrentAnimation
                /\ res'.this.startFrame = res.this.startFrame
                /\ res'.this.frame = res.this.frame]_vars

\* once dead a Character stays dead and its sprite has been released once
DeadStaysDeadReleasedOnce ==
    [][(Running /\ res.this.IsDead) =>
          /\ res'.this.IsDead
          /\ res.this.sprite.released = 1
          /\ res'.this.sprite.released = 1]_vars

\* a dead Character whose sprite has moved since Death()
DeadCharacterMoved ==
    /\ CharacterDone("UpdatePosition")
    /\ res.this.IsDead
    /\ res.this.IsMoving
    /\ ~Moved(res.this.sprite.position[0], 0)

--------------------------------------------------------------------------
(* every call modelled above *)

Init == InitOrtho \/ InitPersp \/ InitVecMul \/ InitInv3 \/ InitInv4 \/ InitQuat \/ InitCross \/ InitLook \/ InitRotate \/ InitBounds \/ InitSlerp \/ InitGet3x3 \/ InitFlint \/ InitMatMul \/ InitAxisAngle \/ InitQuatSel \/ InitQuat4 \/ InitTransInv3 \/ InitCharacter

Next == NextOrtho \/ NextPersp \/ NextVecMul \/ NextInv3 \/ NextInv4 \/ NextQuat \/ NextCross \/ NextLook \/ NextRotate \/ NextBounds \/ NextSlerp \/ NextGet3x3 \/ NextFlint \/ NextMatMul \/ NextAxisAngle \/ NextQuatSel \/ NextQuat4 \/ NextTransInv3 \/ NextCharacter

Spec == Init /\ [][Next]_vars

==========================================================================
